---------------------------- MODULE Spec2Model ----------------------------
(***************************************************************************)
(* A model of adblitz (bin/adblitz.js): the combination expansion, the     *)
(* name generation with deduplication, and the bounded worker pool that    *)
(* runs the render jobs with their caption and thumbnail post-steps.       *)
(*                                                                         *)
(* Strings are sequences of one-character strings, so that the string      *)
(* operations of the program (replace, toLowerCase, substring, template    *)
(* literals) are computed character by character.                         *)
(***************************************************************************)
EXTENDS Integers, Sequences, FiniteSets, TLC

(***************************************************************************)
(* Bounds of the model.                                                    *)
(***************************************************************************)
MaxSegments == 2
MaxPool == 2
MaxOverlays == 2
MaxTracks == 2
MaxJobs == 5
MaxPostJobs == 2
MaxTrimLen == 3
MaxParts == 2
MaxRawLen == 3
MaxItems == 1

(***************************************************************************)
(* Program constants.                                                      *)
(***************************************************************************)
MAX_CONCURRENCY == 4
MaxNameLen == 200
MaxSlugLen == 30
IndexPad == 4
MaxErrorLen == 200
ErrorLines == 3

(***************************************************************************)
(* Characters.                                                             *)
(***************************************************************************)
UpperChars ==
  <<"A","B","C","D","E","F","G","H","I","J","K","L","M",
    "N","O","P","Q","R","S","T","U","V","W","X","Y","Z">>
LowerChars ==
  <<"a","b","c","d","e","f","g","h","i","j","k","l","m",
    "n","o","p","q","r","s","t","u","v","w","x","y","z">>
DigitChars == <<"0","1","2","3","4","5","6","7","8","9">>

Range(s) == {s[i] : i \in DOMAIN s}

\* The character standing for the null byte.
NUL == "NUL"
\* The characters the regular expression class \s matches.
SpaceChars == {" ", "\t", "\n", "\r", "\f"}
\* [/\\]
PathSeparators == {"/", "\\"}
\* [<>:"|?*]
ProblemChars == {"<", ">", ":", "\"", "|", "?", "*"}
\* [a-zA-Z0-9]
AlnumChars == Range(UpperChars) \cup Range(LowerChars) \cup Range(DigitChars)

\* String.prototype.toLowerCase, one character.
LowerChar(c) ==
  IF \E i \in DOMAIN UpperChars : UpperChars[i] = c
  THEN LowerChars[CHOOSE i \in DOMAIN UpperChars : UpperChars[i] = c]
  ELSE c

toLowerCase(s) == [i \in DOMAIN s |-> LowerChar(s[i])]

\* s.substring(0, n)
Substring0(s, n) == IF Len(s) > n THEN SubSeq(s, 1, n) ELSE s

\* String(n) for a natural number n.
RECURSIVE IntToString(_)
IntToString(n) ==
  IF n < 10 THEN <<DigitChars[n + 1]>>
  ELSE IntToString(n \div 10) \o <<DigitChars[(n % 10) + 1]>>

\* s.padStart(width, '0')
RECURSIVE PadStart0(_, _)
PadStart0(s, width) ==
  IF Len(s) >= width THEN s ELSE PadStart0(<<"0">> \o s, width)

\* The position of the first match of the literal pattern pat in s, 0 when
\* there is none.
FirstMatch(s, pat) ==
  LET at(i) == SubSeq(s, i, i + Len(pat) - 1) = pat
      starts == 1..(Len(s) - Len(pat) + 1)
  IN  IF \E i \in starts : at(i)
      THEN CHOOSE i \in starts : at(i) /\ \A j \in 1..(i - 1) : ~at(j)
      ELSE 0

\* The text String.prototype.replace inserts for the replacement string rep:
\* $$ stands for one $ and $& for the matched text.
RECURSIVE ReplacementText(_, _)
ReplacementText(rep, matched) ==
  IF Len(rep) < 2 THEN rep
  ELSE IF rep[1] = "$" /\ rep[2] = "$"
       THEN <<"$">> \o ReplacementText(SubSeq(rep, 3, Len(rep)), matched)
  ELSE IF rep[1] = "$" /\ rep[2] = "&"
       THEN matched \o ReplacementText(SubSeq(rep, 3, Len(rep)), matched)
  ELSE <<rep[1]>> \o ReplacementText(Tail(rep), matched)

\* s.replace(/pat/g, rep) for a literal, non-empty pattern: the matches are
\* found left to right and do not overlap; the inserted text is not rescanned.
RECURSIVE ReplaceAll(_, _, _)
ReplaceAll(s, pat, rep) ==
  LET i == FirstMatch(s, pat)
  IN  IF i = 0 THEN s
      ELSE SubSeq(s, 1, i - 1) \o ReplacementText(rep, pat)
             \o ReplaceAll(SubSeq(s, i + Len(pat), Len(s)), pat, rep)

\* s.replace(/[set]/g, rep): every character of the class becomes rep.
MapClass(s, set, rep) == [i \in DOMAIN s |-> IF s[i] \in set THEN rep ELSE s[i]]

\* The position of the first character of s that is in set, 0 when there is
\* none.
FirstIn(s, set) ==
  IF \E i \in DOMAIN s : s[i] \in set
  THEN CHOOSE i \in DOMAIN s : s[i] \in set /\ \A j \in 1..(i - 1) : s[j] \notin set
  ELSE 0

\* The position of the last character of the run of set that starts at i.
RunEnd(s, set, i) ==
  CHOOSE e \in i..Len(s) :
    /\ \A j \in i..e : s[j] \in set
    /\ (e = Len(s) \/ s[e + 1] \notin set)

\* s.replace(/[set]+/g, rep): every maximal run of the class becomes one rep.
RECURSIVE CollapseRuns(_, _, _)
CollapseRuns(s, set, rep) ==
  LET i == FirstIn(s, set)
  IN  IF i = 0 THEN s
      ELSE SubSeq(s, 1, i - 1) \o <<rep>>
             \o CollapseRuns(SubSeq(s, RunEnd(s, set, i) + 1, Len(s)), set, rep)

\* s.replace(/^[set]+/, '')
RECURSIVE TrimStart(_, _)
TrimStart(s, set) ==
  IF s # <<>> /\ Head(s) \in set THEN TrimStart(Tail(s), set) ELSE s

\* s.replace(/[set]+$/, '')
RECURSIVE TrimEnd(_, _)
TrimEnd(s, set) ==
  IF s # <<>> /\ s[Len(s)] \in set
  THEN TrimEnd(SubSeq(s, 1, Len(s) - 1), set)
  ELSE s

(***************************************************************************)
(* sanitizeFilename                                                        *)
(***************************************************************************)
Unnamed == <<"u","n","n","a","m","e","d">>

\* A sanitizer that collapses the underscores before it replaces the
\* problematic characters.
sanitizeFilenameCollapseFirst(name) ==
  LET n1 == SelectSeq(name, LAMBDA c : c # NUL)
      n2 == MapClass(n1, PathSeparators, "_")
      n4 == CollapseRuns(n2, {"_"}, "_")
      n3 == MapClass(n4, ProblemChars, "_")
      n5 == TrimEnd(TrimStart(n3, {"."} \cup SpaceChars), {"."} \cup SpaceChars)
      n6 == Substring0(n5, MaxNameLen)
  IN  IF n6 = <<>> THEN Unnamed ELSE n6

sanitizeFilename(name) ==
  LET n1 == SelectSeq(name, LAMBDA c : c # NUL)
      n2 == MapClass(n1, PathSeparators, "_")
      n3 == MapClass(n2, ProblemChars, "_")
      n4 == CollapseRuns(n3, {"_"}, "_")
      n5 == TrimEnd(TrimStart(n4, {"."} \cup SpaceChars), {"."} \cup SpaceChars)
      n6 == Substring0(n5, MaxNameLen)
  IN  IF n6 = <<>> THEN Unnamed ELSE n6

(***************************************************************************)
(* cartesian: arrays.reduce over flatMap, starting from [[]].              *)
(***************************************************************************)
\* arr.map(item => [...combo, item])
ExtendCombo(combo, arr) == [i \in DOMAIN arr |-> Append(combo, arr[i])]

\* A product whose outer loop runs over the items of the new segment.
RECURSIVE FlatMapItemMajor(_, _)
FlatMapItemMajor(acc, arr) ==
  IF arr = <<>> THEN <<>>
  ELSE [c \in DOMAIN acc |-> Append(acc[c], Head(arr))] \o FlatMapItemMajor(acc, Tail(arr))

\* acc.flatMap(combo => arr.map(item => [...combo, item]))
RECURSIVE FlatMapExtend(_, _)
FlatMapExtend(acc, arr) ==
  IF acc = <<>> THEN <<>>
  ELSE ExtendCombo(Head(acc), arr) \o FlatMapExtend(Tail(acc), arr)

RECURSIVE CartesianReduce(_, _)
CartesianReduce(acc, arrays) ==
  IF arrays = <<>> THEN acc
  ELSE CartesianReduce(FlatMapExtend(acc, Head(arrays)), Tail(arrays))

cartesian(arrays) ==
  IF Len(arrays) = 0 THEN << <<>> >> ELSE CartesianReduce(<< <<>> >>, arrays)

(***************************************************************************)
(* Building and expanding the combinations.  A combination is a record;    *)
(* the optional properties overlayText, music and name are fields that are *)
(* present only once they have been set ({...combo, music: track}).        *)
(***************************************************************************)
\* cartCombos.map(videos => ({ parts: videos.map((v, i) => ({label, video})) }))
AttachLabels(segments, cartCombos) ==
  [c \in DOMAIN cartCombos |->
     [parts |-> [i \in DOMAIN cartCombos[c] |->
                   [label |-> segments[i].label, video |-> cartCombos[c][i]]]]]

BaseCombos(segments) ==
  AttachLabels(segments, cartesian([s \in DOMAIN segments |-> segments[s].videos]))

\* { ...combo, overlayText: text } and { ...combo, music: track }
WithField(combo, field, value) == (field :> value) @@ combo

\* The inner loop of an expansion: one variant of combo per value, in order.
Variants(combo, field, values) ==
  [v \in DOMAIN values |-> WithField(combo, field, values[v])]

\* for (const combo of combos) for (const value of values) expanded.push(...)
RECURSIVE Expand(_, _, _)
Expand(combos, field, values) ==
  IF combos = <<>> THEN <<>>
  ELSE Variants(Head(combos), field, values) \o Expand(Tail(combos), field, values)

MultiplyOverlays(combos, overlays) ==
  IF Len(overlays) > 0 THEN Expand(combos, "overlayText", overlays) ELSE combos

\* An assignment that gives every combination the first track.
FirstTrack(musicFiles, i) == musicFiles[1]

\* combos.map((combo, i) => ({ ...combo, music: musicFiles[i % musicFiles.length] }))
\* (i is 0-based in the program, positions are 1-based here)
RoundRobinTrack(musicFiles, i) == musicFiles[(i % Len(musicFiles)) + 1]

AssignRoundRobin(combos, musicFiles) ==
  [c \in DOMAIN combos |->
     WithField(combos[c], "music", RoundRobinTrack(musicFiles, c - 1))]

\* An expansion that multiplies by the tracks whenever there is music.
ApplyMusicAlwaysMultiplied(combos, musicFiles, musicAll) ==
  IF Len(musicFiles) > 0 THEN Expand(combos, "music", musicFiles) ELSE combos

ApplyMusic(combos, musicFiles, musicAll) ==
  IF Len(musicFiles) > 0 /\ musicAll THEN Expand(combos, "music", musicFiles)
  ELSE IF Len(musicFiles) > 0 THEN AssignRoundRobin(combos, musicFiles)
  ELSE combos

(***************************************************************************)
(* applyNaming                                                             *)
(***************************************************************************)
\* new Date().toISOString().slice(0, 10): the day of the run.
Today == <<"2","0","2","6","-","1","1","-","0","1">>

Braced(s) == <<"{">> \o s \o <<"}">>
IndexWord == <<"i","n","d","e","x">>
DateWord == <<"d","a","t","e">>

\* for (const p of parts) name = name.replace(/\{label\}/g, p.video.name)
RECURSIVE ReplaceLabels(_, _)
ReplaceLabels(name, parts) ==
  IF parts = <<>> THEN name
  ELSE ReplaceLabels(
         ReplaceAll(name, Braced(Head(parts).label), Head(parts).video.name),
         Tail(parts))

\* parts.forEach((p, i) => name = name.replace(/\{i\}/g, p.video.name))
RECURSIVE ReplacePositions(_, _, _)
ReplacePositions(name, parts, i) ==
  IF i >= Len(parts) THEN name
  ELSE ReplacePositions(
         ReplaceAll(name, Braced(IntToString(i)), parts[i + 1].video.name),
         parts, i + 1)

applyNaming(template, parts, index) ==
  LET n1 == ReplaceAll(template, Braced(IndexWord),
                       PadStart0(IntToString(index + 1), IndexPad))
      n2 == ReplaceAll(n1, Braced(DateWord), Today)
      n3 == ReplaceLabels(n2, parts)
  IN  ReplacePositions(n3, parts, 0)

\* segments.map(s => `{${s.label}}`).join('_')
RECURSIVE JoinUnderscore(_)
JoinUnderscore(words) ==
  IF words = <<>> THEN <<>>
  ELSE IF Len(words) = 1 THEN Head(words)
  ELSE Head(words) \o <<"_">> \o JoinUnderscore(Tail(words))

defaultNaming(segments) ==
  JoinUnderscore([s \in DOMAIN segments |-> Braced(segments[s].label)])

(***************************************************************************)
(* Name generation with deduplication (the callback of combos.map).        *)
(***************************************************************************)
\* combo.overlayText.replace(/[^a-zA-Z0-9]+/g, '-').substring(0, 30)
OverlaySlug(text) ==
  Substring0(CollapseRuns(text, Range(text) \ AlnumChars, "-"), MaxSlugLen)

\* if (combo.overlayText): the property is set and is not the empty string.
HasOverlayText(combo) ==
  "overlayText" \in DOMAIN combo /\ combo.overlayText # <<>>

\* if (combo.music && opts.musicAll)
AppendsMusicName(combo, musicAll) == "music" \in DOMAIN combo /\ musicAll

\* The name before sanitizing: template, then overlay hint, then music name.
RawName(template, combo, i, musicAll) ==
  LET n1 == applyNaming(template, combo.parts, i)
      n2 == IF HasOverlayText(combo)
            THEN n1 \o <<"_">> \o OverlaySlug(combo.overlayText) ELSE n1
  IN  IF AppendsMusicName(combo, musicAll)
      THEN n2 \o <<"_">> \o combo.music.name ELSE n2

\* A set of used names that keeps the case of the names.
UsedKeyCaseSensitive(finalName) == finalName

\* The key under which a name is looked up in and added to usedNames.
UsedKey(finalName) == toLowerCase(finalName)

\* `${name}_${counter}`
Suffixed(name, counter) == name \o <<"_">> \o IntToString(counter)

FirstCounter == 1

\* while (usedNames.has(finalName.toLowerCase())) { finalName = ...; counter++ }
RECURSIVE DedupLoop(_, _, _, _)
DedupLoop(name, finalName, counter, usedNames) ==
  IF UsedKey(finalName) \in usedNames
  THEN DedupLoop(name, Suffixed(name, counter), counter + 1, usedNames)
  ELSE finalName

\* A loop whose counter starts one too high.
DeduplicateFromTwo(name, usedNames) ==
  DedupLoop(name, name, FirstCounter + 1, usedNames)

\* let finalName = name; let counter = 1; while ...
Deduplicate(name, usedNames) == DedupLoop(name, name, FirstCounter, usedNames)

Mp4 == <<".","m","p","4">>

\* One call of the map callback: the named combination and the new usedNames.
NameCombo(template, combo, i, musicAll, usedNames) ==
  LET name == sanitizeFilename(RawName(template, combo, i, musicAll))
      finalName == Deduplicate(name, usedNames)
  IN  [combo |-> WithField(combo, "name", finalName \o Mp4),
       usedNames |-> usedNames \cup {UsedKey(finalName)}]

\* combos.map(...) as a whole, from combination i (0-based) on.
RECURSIVE NameAll(_, _, _, _, _)
NameAll(template, combos, i, musicAll, usedNames) ==
  IF i >= Len(combos) THEN <<>>
  ELSE LET r == NameCombo(template, combos[i + 1], i, musicAll, usedNames)
       IN  <<r.combo>> \o NameAll(template, combos, i + 1, musicAll, r.usedNames)

(***************************************************************************)
(* Numbers.  A number of seconds is an integer count of the smallest       *)
(* decimal fraction a trim argument of the model can name; the textual     *)
(* results of parseFloat that are not numbers are records.                 *)
(***************************************************************************)
NaN == [nan |-> TRUE, value |-> 0]
Number(v) == [nan |-> FALSE, value |-> v]
isNaN(x) == x.nan

RECURSIVE Pow10(_)
Pow10(n) == IF n = 0 THEN 1 ELSE 10 * Pow10(n - 1)

\* One second.
Unit == Pow10(MaxTrimLen)

\* [0-9]
Digits == Range(DigitChars)

DigitValue(c) == CHOOSE d \in 0..9 : IntToString(d) = <<c>>

\* The length of the longest prefix of s made of characters of set.
RECURSIVE PrefixLen(_, _)
PrefixLen(s, set) ==
  IF s = <<>> \/ Head(s) \notin set THEN 0 ELSE 1 + PrefixLen(Tail(s), set)

\* The value of the digits of an integer part, in units.
RECURSIVE IntegerPart(_)
IntegerPart(ds) ==
  IF ds = <<>> THEN 0
  ELSE IntegerPart(SubSeq(ds, 1, Len(ds) - 1)) * 10 + DigitValue(ds[Len(ds)]) * Unit

\* The value of the digits after the decimal point, in units.
RECURSIVE FractionPart(_, _)
FractionPart(ds, weight) ==
  IF ds = <<>> THEN 0
  ELSE DigitValue(Head(ds)) * (weight \div 10) + FractionPart(Tail(ds), weight \div 10)

\* parseFloat(s) for a string without leading white space and without an
\* exponent: the longest prefix [-] digits [. digits] or [-] . digits.
UnsignedFloat(s) ==
  LET n == PrefixLen(s, Digits)
      rest == SubSeq(s, n + 1, Len(s))
      m == IF rest # <<>> /\ Head(rest) = "." THEN PrefixLen(Tail(rest), Digits) ELSE 0
  IN  IF n = 0 /\ m = 0 THEN NaN
      ELSE Number(IntegerPart(SubSeq(s, 1, n))
                    + FractionPart(SubSeq(rest, 2, m + 1), Unit))

parseFloat(s) ==
  IF s # <<>> /\ Head(s) = "-"
  THEN LET v == UnsignedFloat(Tail(s))
       IN  IF isNaN(v) THEN v ELSE Number(0 - v.value)
  ELSE UnsignedFloat(s)

\* /^\d+(\.\d+)?$/
IsDecimal(s) ==
  LET n == PrefixLen(s, Digits)
      rest == SubSeq(s, n + 1, Len(s))
  IN  /\ n > 0
      /\ \/ rest = <<>>
         \/ /\ Head(rest) = "."
            /\ Len(rest) > 1
            /\ PrefixLen(Tail(rest), Digits) = Len(rest) - 1

(***************************************************************************)
(* parseTrim                                                               *)
(***************************************************************************)
Last == <<"l","a","s","t">>

\* The results of parseTrim: a trim spec, null for no argument, and the exit
\* of the process.
Null == [mode |-> "null"]
Exit == [mode |-> "exit"]
LastSpec(seconds) == [mode |-> "last", seconds |-> seconds]
RangeSpec(start, duration) == [mode |-> "range", start |-> start, duration |-> duration]

\* trimStr.match(/^last(\d+(\.\d+)?)$/i) and its first group
LastMatch(trimStr) ==
  /\ Len(trimStr) > Len(Last)
  /\ toLowerCase(SubSeq(trimStr, 1, Len(Last))) = Last
  /\ IsDecimal(SubSeq(trimStr, Len(Last) + 1, Len(trimStr)))
LastGroup(trimStr) == SubSeq(trimStr, Len(Last) + 1, Len(trimStr))

\* trimStr.match(/^(\d+(\.\d+)?)-(\d+(\.\d+)?)$/) and its groups 1 and 3
RangeCuts(trimStr) ==
  {k \in DOMAIN trimStr :
     /\ trimStr[k] = "-"
     /\ IsDecimal(SubSeq(trimStr, 1, k - 1))
     /\ IsDecimal(SubSeq(trimStr, k + 1, Len(trimStr)))}
RangeMatch(trimStr) == RangeCuts(trimStr) # {}
RangeGroup1(trimStr) ==
  SubSeq(trimStr, 1, (CHOOSE k \in RangeCuts(trimStr) : TRUE) - 1)
RangeGroup3(trimStr) ==
  SubSeq(trimStr, (CHOOSE k \in RangeCuts(trimStr) : TRUE) + 1, Len(trimStr))

\* A check that lets a range end where it starts.
EmptyRangeAllowed(start, end) == end < start

\* if (end <= start) ... process.exit(1)
EmptyRange(start, end) == end <= start

parseTrim(trimStr) ==
  IF trimStr = <<>> THEN Null
  ELSE IF LastMatch(trimStr)
  THEN LET seconds == parseFloat(LastGroup(trimStr)).value
       IN  IF seconds <= 0 THEN Exit ELSE LastSpec(seconds)
  ELSE IF RangeMatch(trimStr)
  THEN LET start == parseFloat(RangeGroup1(trimStr)).value
           end == parseFloat(RangeGroup3(trimStr)).value
       IN  IF EmptyRange(start, end) THEN Exit ELSE RangeSpec(start, end - start)
  ELSE LET dur == parseFloat(trimStr)
       IN  IF ~isNaN(dur) /\ dur.value > 0 THEN RangeSpec(0, dur.value) ELSE Exit

(***************************************************************************)
(* getVideoDuration: what ffprobe printed, or that execSync threw.         *)
(***************************************************************************)
NoDuration == [null |-> TRUE, value |-> 0]
Duration(v) == [null |-> FALSE, value |-> v]

Printed(stdout) == [error |-> FALSE, stdout |-> stdout]
Thrown == [error |-> TRUE, stdout |-> <<>>]

getVideoDuration(probe) ==
  IF probe.error THEN NoDuration
  ELSE LET dur == parseFloat(TrimEnd(TrimStart(probe.stdout, SpaceChars), SpaceChars))
       IN  IF isNaN(dur) \/ dur.value <= 0 THEN NoDuration ELSE Duration(dur.value)

(***************************************************************************)
(* The request of a task: the ffmpeg command it hands to runFfmpeg, as its *)
(* inputs, the filters of -filter_complex, the -map arguments and the      *)
(* encoder options.  A stream label or input stream is a Ref: [0:v] is     *)
(* Ref("v", 0), [vs1] is Ref("vs", 1), [concatv] is Ref("concatv", 0).     *)
(***************************************************************************)
Ref(kind, idx) == [kind |-> kind, idx |-> idx]
Filter(ins, op, args, outs) == [ins |-> ins, op |-> op, args |-> args, outs |-> outs]

FileInput(p) == [kind |-> "file", path |-> p]
\* -f lavfi -i anullsrc=channel_layout=stereo:sample_rate=44100
SilenceInput == [kind |-> "lavfi", source |-> "anullsrc",
                 args |-> [channel_layout |-> "stereo", sample_rate |-> 44100]]

\* trimMap[parts[idx].label]
TrimFor(trimMap, label) ==
  IF label \in DOMAIN trimMap THEN trimMap[label] ELSE Null

\* A task that takes every part to have audio, whatever the cache says.
InputHasAudioAssumed(cache, parts) == [k \in DOMAIN parts |-> TRUE]

\* audioProbeCache.get(p.video.path) || false
InputHasAudio(cache, parts) ==
  [k \in DOMAIN parts |->
     IF parts[k].video.path \in DOMAIN cache THEN cache[parts[k].video.path] ELSE FALSE]

HasMusic(combo) == "music" \in DOMAIN combo

\* A job that has audio only when one of its segments has.
AnyHasAudioIgnoringMusic(inputHasAudio, combo) ==
  \E k \in DOMAIN inputHasAudio : inputHasAudio[k]

\* inputHasAudio.some(Boolean) || (combo.music != null)
AnyHasAudio(inputHasAudio, combo) ==
  (\E k \in DOMAIN inputHasAudio : inputHasAudio[k]) \/ HasMusic(combo)

\* A Last trim that also applies when the clip is exactly as long.
LastAppliesWhenEqual(dur, trim) ==
  ~dur.null /\ dur.value # 0 /\ dur.value >= trim.seconds

\* dur && dur > trim.seconds
LastApplies(dur, trim) ==
  ~dur.null /\ dur.value # 0 /\ dur.value > trim.seconds

Max(a, b) == IF a > b THEN a ELSE b

\* Whether the streams of part idx (counted from 0) are trimmed.
Trimmed(trim, dur) ==
  IF trim.mode = "null" THEN FALSE
  ELSE IF trim.mode = "last" THEN LastApplies(dur, trim)
  ELSE TRUE

\* The arguments of trim= and atrim=.
TrimArgs(trim, dur) ==
  IF trim.mode = "last"
  THEN [start |-> Max(0, dur.value - trim.seconds)]
  ELSE [start |-> trim.start, duration |-> trim.duration]

\* [idx:v]scale=w:h:force_original_aspect_ratio=decrease,pad=...,setsar=1,fps=30[vs idx]
ScaleFilter(idx, w, h) ==
  Filter(<<Ref("v", idx)>>, "scale,pad,setsar,fps",
         [w |-> w, h |-> h, setsar |-> 1, fps |-> 30], <<Ref("vs", idx)>>)

\* [ref]aresample=44100,aformat=sample_fmts=fltp:channel_layouts=stereo[as idx]
ResampleFilter(ref, idx) ==
  Filter(<<ref>>, "aresample,aformat",
         [rate |-> 44100, sample_fmts |-> "fltp", channel_layouts |-> "stereo"],
         <<Ref("as", idx)>>)

\* [vs idx]trim=...,setpts=PTS-STARTPTS[vt idx]
VideoTrimFilter(idx, trim, dur) ==
  Filter(<<Ref("vs", idx)>>, "trim,setpts", TrimArgs(trim, dur), <<Ref("vt", idx)>>)

\* [as idx]atrim=...,asetpts=PTS-STARTPTS[at idx]
AudioTrimFilter(idx, trim, dur) ==
  Filter(<<Ref("as", idx)>>, "atrim,asetpts", TrimArgs(trim, dur), <<Ref("at", idx)>>)

RECURSIVE Flatten(_)
Flatten(seqs) == IF seqs = <<>> THEN <<>> ELSE Head(seqs) \o Flatten(Tail(seqs))

\* The escapes of the overlay text.
Quote == <<"'">>
Colon == <<":">>
Backslash == <<"\\">>
EscapedQuote == <<"'", "\\", "'", "'">>
EscapedColon == <<"\\", ":">>
EscapedBackslash == <<"\\", "\\">>

\* .replace(/'/g, "'\\''").replace(/:/g, '\\:').replace(/\\/g, '\\\\')
EscapeQuotesFirst(text) ==
  ReplaceAll(ReplaceAll(ReplaceAll(text, Quote, EscapedQuote),
                        Colon, EscapedColon),
             Backslash, EscapedBackslash)

\* .replace(/\\/g, '\\\\').replace(/'/g, "'\\''").replace(/:/g, '\\:')
EscapeBackslashesFirst(text) ==
  ReplaceAll(ReplaceAll(ReplaceAll(text, Backslash, EscapedBackslash),
                        Quote, EscapedQuote),
             Colon, EscapedColon)

\* pos === 'top' ? 'h*0.08' : pos === 'center' ? '(h-text_h)/2' : 'h*0.85'
YExpr(pos) ==
  IF pos = "top" THEN "h*0.08" ELSE IF pos = "center" THEN "(h-text_h)/2" ELSE "h*0.85"

\* [concatv]drawtext=text='...':fontsize=...:fontcolor=...:x=...:y=...[overlayv]
DrawtextFilter(escapedText, o) ==
  Filter(<<Ref("concatv", 0)>>, "drawtext",
         [text |-> escapedText, fontsize |-> o.overlaySize,
          fontcolor |-> o.overlayColor, y |-> YExpr(o.overlayPos)],
         <<Ref("overlayv", 0)>>)

\* The filters of part idx in the video-only request.
VideoOnlyPart(idx, trim, dur, w, h) ==
  <<ScaleFilter(idx, w, h)>>
    \o (IF Trimmed(trim, dur) THEN <<VideoTrimFilter(idx, trim, dur)>> ELSE <<>>)

\* The label of the video stream of part idx that enters the concatenation.
VLabel(idx, trim, dur) == IF Trimmed(trim, dur) THEN Ref("vt", idx) ELSE Ref("vs", idx)
ALabel(idx, trim, dur) == IF Trimmed(trim, dur) THEN Ref("at", idx) ELSE Ref("as", idx)

\* The request of a job without audio, lines 711-763: parts counted from 0,
\* durs[k] the result of getVideoDuration for part k - 1.
VideoOnlyRequest(combo, trimMap, durs, w, h, o, outPath) ==
  LET parts == combo.parts
      n == Len(parts)
      trim(k) == TrimFor(trimMap, parts[k].label)
      filterPartsNoAudio ==
        Flatten([k \in 1..n |-> VideoOnlyPart(k - 1, trim(k), durs[k], w, h)])
      concatInputsNoAudio == [k \in 1..n |-> VLabel(k - 1, trim(k), durs[k])]
      concat == Filter(concatInputsNoAudio, "concat", [n |-> n, v |-> 1, a |-> 0],
                       <<Ref("concatv", 0)>>)
      overlay == IF HasOverlayText(combo)
                 THEN <<DrawtextFilter(EscapeQuotesFirst(combo.overlayText), o)>>
                 ELSE <<>>
      finalV == IF HasOverlayText(combo) THEN Ref("overlayv", 0) ELSE Ref("concatv", 0)
  IN  [inputs |-> [k \in 1..n |-> FileInput(parts[k].video.path)],
       filter_complex |-> filterPartsNoAudio \o <<concat>> \o overlay,
       map |-> <<finalV>>,
       cv |-> "libx264", preset |-> o.preset, crf |-> 23, movflags |-> "+faststart",
       out |-> outPath]

\* One silence input read by every silent part.
SilentBeforeShared(inputHasAudio, k) == 0

\* The number of parts before part k (counted from 1) that have no audio.
SilentBefore(inputHasAudio, k) ==
  Cardinality({j \in 1..(k - 1) : ~inputHasAudio[j]})

\* The filters of part idx in the request with audio.
AudioPart(idx, trim, dur, w, h, audioInputRef) ==
  <<ScaleFilter(idx, w, h), ResampleFilter(audioInputRef, idx)>>
    \o (IF Trimmed(trim, dur)
        THEN <<VideoTrimFilter(idx, trim, dur), AudioTrimFilter(idx, trim, dur)>>
        ELSE <<>>)

\* [N:a]aresample=44100,aformat=...,volume=0.3[bgm]
BgmFilter(musicInputIdx) ==
  Filter(<<Ref("a", musicInputIdx)>>, "aresample,aformat,volume",
         [rate |-> 44100, sample_fmts |-> "fltp", channel_layouts |-> "stereo",
          volume |-> "0.3"],
         <<Ref("bgm", 0)>>)

\* [concata][bgm]amix=inputs=2:duration=first:dropout_transition=2[mixeda]
AmixFilter ==
  Filter(<<Ref("concata", 0), Ref("bgm", 0)>>, "amix",
         [inputs |-> 2, duration |-> "first", dropout_transition |-> 2],
         <<Ref("mixeda", 0)>>)

\* The request of a job with audio, lines 765-870.
AudioRequest(combo, trimMap, inputHasAudio, durs, w, h, o, outPath) ==
  LET parts == combo.parts
      n == Len(parts)
      trim(k) == TrimFor(trimMap, parts[k].label)
      musicInputIdx == n
      firstSilence == IF HasMusic(combo) THEN n + 1 ELSE n
      silenceInputMap(k) == firstSilence + SilentBefore(inputHasAudio, k)
      silent == SelectSeq([k \in 1..n |-> k], LAMBDA k : ~inputHasAudio[k])
      rebuiltInputArgs ==
        [k \in 1..n |-> FileInput(parts[k].video.path)]
          \o (IF HasMusic(combo) THEN <<FileInput(combo.music.path)>> ELSE <<>>)
          \o [k \in 1..Len(silent) |-> SilenceInput]
      audioInputRef(k) ==
        IF inputHasAudio[k] THEN Ref("a", k - 1) ELSE Ref("a", silenceInputMap(k))
      fp == Flatten([k \in 1..n |->
                       AudioPart(k - 1, trim(k), durs[k], w, h, audioInputRef(k))])
      ci == Flatten([k \in 1..n |-> <<VLabel(k - 1, trim(k), durs[k]),
                                      ALabel(k - 1, trim(k), durs[k])>>])
      concat == Filter(ci, "concat", [n |-> n, v |-> 1, a |-> 1],
                       <<Ref("concatv", 0), Ref("concata", 0)>>)
      overlay == IF HasOverlayText(combo)
                 THEN <<DrawtextFilter(EscapeBackslashesFirst(combo.overlayText), o)>>
                 ELSE <<>>
      finalV == IF HasOverlayText(combo) THEN Ref("overlayv", 0) ELSE Ref("concatv", 0)
      music == IF HasMusic(combo) THEN <<BgmFilter(musicInputIdx), AmixFilter>> ELSE <<>>
      finalA == IF HasMusic(combo) THEN Ref("mixeda", 0) ELSE Ref("concata", 0)
  IN  [inputs |-> rebuiltInputArgs,
       filter_complex |-> fp \o <<concat>> \o overlay \o music,
       map |-> <<finalV, finalA>>,
       cv |-> "libx264", preset |-> o.preset, crf |-> 23,
       ca |-> "aac", ba |-> "128k", movflags |-> "+faststart",
       out |-> outPath]

\* The command a task hands to runFfmpeg for its primary render.
RenderRequest(combo, trimMap, cache, durs, w, h, o, outPath) ==
  LET inputHasAudio == InputHasAudio(cache, combo.parts)
  IN  IF ~AnyHasAudio(inputHasAudio, combo)
      THEN VideoOnlyRequest(combo, trimMap, durs, w, h, o, outPath)
      ELSE AudioRequest(combo, trimMap, inputHasAudio, durs, w, h, o, outPath)

(***************************************************************************)
(* The state of a run.                                                     *)
(***************************************************************************)
VARIABLES
  segments,        \* array of { label, videos }
  overlays,        \* the overlay texts
  musicFiles,      \* the music tracks
  musicAll,        \* opts.musicAll
  namingTemplate,  \* opts.naming || defaultNaming
  combos,          \* the combinations, in sequence order
  usedNames,       \* the lower-cased names assigned so far
  sanitizedNames,  \* the value of `name` after sanitizeFilename, per combination
  stage,           \* the position of the action callback
  captions,        \* opts.captions
  thumbnails,      \* opts.thumbnails
  index,           \* runWithConcurrency: the next task to start
  completed,       \* runWithConcurrency: the number of finished tasks
  results,         \* runWithConcurrency: the result array
  workers,         \* runWithConcurrency: the workers, each with its task i
  success,         \* the number of jobs reported ok
  failed,          \* the number of jobs reported failed
  errors,          \* the error list of the report
  progress,        \* the arguments of the last call of the progress callback
  fs,              \* the files of the output directory and of thumbnails/
  exitStatus,      \* per job, how its primary render invocation ended
  touched,         \* per job, the paths it wrote, renamed onto or deleted
  invoked,         \* per job, the external tools it invoked, in order
  opts,            \* the command line options
  exitCode,        \* the code of process.exit, once it has been called
  env,             \* the tools found in the PATH
  trimMap,         \* label -> trim spec
  audioProbeCache, \* path -> whether the file has an audio stream
  probeLog,        \* the audio probes made, in order, each with ffprobe's answer
  request          \* the command last handed to runFfmpeg for a primary render

nameVars == <<segments, overlays, musicFiles, musicAll, namingTemplate,
              combos, usedNames, sanitizedNames>>
poolVars == <<captions, thumbnails, index, completed, results, workers,
              success, failed, errors, progress, fs, exitStatus, touched, invoked>>
runVars == <<opts, exitCode, env, trimMap, audioProbeCache, probeLog, request>>
vars == <<nameVars, stage, poolVars, runVars>>

(***************************************************************************)
(* Inputs.  A pool is what getVideos returns for a folder: the files in    *)
(* the order of their sorted file names, each with its name (the file name *)
(* without the extension) and its path.                                    *)
(***************************************************************************)
SegmentDirs == <<"hooks", "ctas", "bodies", "s4">>
Video(k, name, ext) ==
  [name |-> name, path |-> [dir |-> SegmentDirs[k], file |-> name \o ext]]

Mov == <<".","m","o","v">>
Mp3 == <<".","m","p","3">>

SegmentLabels ==
  << <<"h","o","o","k">>, <<"c","t","a">>, <<"b","o","d","y">>, <<"s","4">> >>

\* The sorted content of the folder of the k-th segment.
FolderFiles(k) ==
  CASE k = 1 -> << Video(k, <<"A">>, Mp4), Video(k, <<"a">>, Mp4),
                   Video(k, <<"a","_","1">>, Mp4), Video(k, <<"b">>, Mp4) >>
    [] k = 2 -> << Video(k, <<"a">>, Mov), Video(k, <<"a","_","1">>, Mp4),
                   Video(k, <<"x">>, Mp4), Video(k, <<"y">>, Mp4) >>
    [] OTHER -> << Video(k, <<"b">>, Mov), Video(k, <<"b">>, Mp4),
                   Video(k, <<"c">>, Mp4), Video(k, <<"d">>, Mp4) >>

Min(a, b) == IF a < b THEN a ELSE b

\* The segment lists of k segments whose pools are the first 1..MaxPool files
\* of their folders.
RECURSIVE SegmentLists(_)
SegmentLists(k) ==
  IF k = 0 THEN { <<>> }
  ELSE { Append(ss, [label |-> SegmentLabels[k],
                     videos |-> SubSeq(FolderFiles(k), 1, n)]) :
           ss \in SegmentLists(k - 1),
           n \in 1..Min(MaxPool, Len(FolderFiles(k))) }

\* hook:[a,b], cta:[x,y]
ExampleSegments ==
  << [label |-> SegmentLabels[1],
      videos |-> << Video(1, <<"a">>, Mp4), Video(1, <<"b">>, Mp4) >>],
     [label |-> SegmentLabels[2],
      videos |-> << Video(2, <<"x">>, Mp4), Video(2, <<"y">>, Mp4) >>] >>

SegmentChoices ==
  UNION { SegmentLists(k) : k \in 1..Min(MaxSegments, Len(SegmentLabels)) }
    \cup { ExampleSegments }

OverlayTexts == << <<"S","A","L","E">>, <<"N","E","W","!"," ","!">>, <<>>, <<"5","0","%">> >>
OverlayChoices ==
  { SubSeq(OverlayTexts, 1, n) : n \in 0..Min(MaxOverlays, Len(OverlayTexts)) }

MusicFolder ==
  << [name |-> <<"m">>, path |-> [dir |-> "music", file |-> <<"m">> \o Mp3]],
     [name |-> <<"n">>, path |-> [dir |-> "music", file |-> <<"n">> \o Mp3]],
     [name |-> <<"o">>, path |-> [dir |-> "music", file |-> <<"o">> \o Mp3]] >>
MusicChoices ==
  { SubSeq(MusicFolder, 1, n) : n \in 0..Min(MaxTracks, Len(MusicFolder)) }

\* The values of --naming: not given, {0}, {1}.
NoTemplate == <<>>
TemplateChoices == { NoTemplate, Braced(<<"0">>), Braced(<<"1">>) }

\* opts.naming || defaultNaming
ChooseTemplate(naming, segs) == IF naming # <<>> THEN naming ELSE defaultNaming(segs)

(***************************************************************************)
(* The worker pool at rest: before runWithConcurrency is called.           *)
(***************************************************************************)
EmptySlot == [empty |-> TRUE]

\* The progress callback has not been called.
NoProgress == [completed |-> 0]

PoolAtRest ==
  /\ index = 0
  /\ completed = 0
  /\ results = <<>>
  /\ workers = {}
  /\ success = 0
  /\ failed = 0
  /\ errors = <<>>
  /\ progress = NoProgress
  /\ fs = <<>>
  /\ exitStatus = <<>>
  /\ touched = <<>>
  /\ invoked = <<>>

(***************************************************************************)
(* The command line options, with the defaults of the option declarations. *)
(* An option that was not given is the empty string.                       *)
(***************************************************************************)
DefaultOpts ==
  [segments |-> <<>>, hooks |-> <<"h","o","o","k","s">>, bodies |-> <<>>,
   ctas |-> <<"c","t","a","s">>,
   trimHook |-> <<>>, trimBody |-> <<>>, trimCta |-> <<>>,
   width |-> <<"1","0","8","0">>, height |-> <<"1","9","2","0">>,
   preset |-> "fast", overlayPos |-> "bottom", overlaySize |-> "48",
   overlayColor |-> "white", dryRun |-> FALSE,
   music |-> <<>>, overlay |-> <<>>, overlays |-> <<>>]

\* parseInt(s, 10): the integer of the longest prefix [-] digits, else NaN.
RECURSIVE DigitsValue(_)
DigitsValue(ds) ==
  IF ds = <<>> THEN 0
  ELSE DigitsValue(SubSeq(ds, 1, Len(ds) - 1)) * 10 + DigitValue(ds[Len(ds)])

parseInt(str) ==
  LET s == TrimStart(str, SpaceChars)
      neg == s # <<>> /\ Head(s) = "-"
      body == IF neg THEN Tail(s) ELSE s
      n == PrefixLen(body, Digits)
  IN  IF n = 0 THEN NaN
      ELSE Number(IF neg THEN 0 - DigitsValue(SubSeq(body, 1, n))
                  ELSE DigitsValue(SubSeq(body, 1, n)))

\* The trim map of the options: if (opts.trimHook) trimMap['hook'] = ...
TrimOptions(o) ==
  LET hook == IF o.trimHook # <<>> THEN {<<SegmentLabels[1], o.trimHook>>} ELSE {}
      body == IF o.trimBody # <<>> THEN {<<SegmentLabels[3], o.trimBody>>} ELSE {}
      cta == IF o.trimCta # <<>> THEN {<<SegmentLabels[2], o.trimCta>>} ELSE {}
  IN  hook \cup body \cup cta

TrimMapOf(o) ==
  [label \in {t[1] : t \in TrimOptions(o)} |->
     parseTrim((CHOOSE t \in TrimOptions(o) : t[1] = label)[2])]

\* The paths of the videos of all segments.
AllPaths(segs) ==
  UNION { {segs[k].videos[j].path : j \in DOMAIN segs[k].videos} : k \in DOMAIN segs }

\* The elements of a sequence, each once, in the order of their first
\* occurrence: the iteration order of a Set filled from the sequence.
Distinct(s) ==
  SelectSeq([k \in DOMAIN s |-> [at |-> k, item |-> s[k]]],
            LAMBDA e : \A j \in 1..(e.at - 1) : s[j] # e.item)

\* An array of the paths in place of the set: a path of two segments twice.
PathsWithDuplicates(segs) ==
  Flatten([k \in DOMAIN segs |->
             [j \in DOMAIN segs[k].videos |-> segs[k].videos[j].path]])

\* for (const seg of segments) for (const v of seg.videos) allPaths.add(v.path)
UniquePaths(segs) ==
  LET d == Distinct(Flatten([k \in DOMAIN segs |->
                               [j \in DOMAIN segs[k].videos |-> segs[k].videos[j].path]]))
  IN  [k \in DOMAIN d |-> d[k].item]

\* ffprobe names the codec type of every audio stream, one line each.
AudioLine == <<"a","u","d","i","o","\n">>

\* The probes behind a given cache: one of every path.
LogOf(cache, segs) ==
  [k \in DOMAIN UniquePaths(segs) |->
     [path |-> UniquePaths(segs)[k],
      answer |-> IF cache[UniquePaths(segs)[k]] THEN Printed(AudioLine) ELSE Thrown]]

\* The argument of --segments that names the folder of a video.
DirArg(dir) ==
  CASE dir = "hooks" -> <<"h","o","o","k","s">>
    [] dir = "ctas" -> <<"c","t","a","s">>
    [] dir = "bodies" -> <<"b","o","d","i","e","s">>
    [] OTHER -> <<"s","4">>
SegmentArgs(segs) ==
  [k \in DOMAIN segs |-> segs[k].label \o <<":">> \o DirArg(segs[k].videos[1].path.dir)]

\* The options of a run whose segments were given with --segments.
CustomOpts(segs) ==
  [DefaultOpts EXCEPT !.segments = SegmentArgs(segs), !.hooks = <<>>, !.ctas = <<>>]

NoRequest == [job |-> -1]

\* ffmpeg and whisper are in the PATH.
Installed == [ffmpeg |-> TRUE, whisper |-> TRUE]

\* A run without trims whose probes found an audio stream in every file, before
\* its first task starts.
RunAtRest(segs) ==
  /\ opts = CustomOpts(segs)
  /\ exitCode = <<>>
  /\ env = Installed
  /\ trimMap = TrimMapOf(opts)
  /\ audioProbeCache = [p \in AllPaths(segs) |-> TRUE]
  /\ probeLog = LogOf(audioProbeCache, segs)
  /\ request = NoRequest

(***************************************************************************)
(* The expansion and naming steps of the action callback.                  *)
(***************************************************************************)
NameInit ==
  /\ segments \in SegmentChoices
  /\ overlays \in OverlayChoices
  /\ musicFiles \in MusicChoices
  /\ musicAll \in BOOLEAN
  /\ \E naming \in TemplateChoices : namingTemplate = ChooseTemplate(naming, segments)
  /\ combos = <<>>
  /\ usedNames = {}
  /\ sanitizedNames = <<>>
  /\ stage = "build"
  /\ captions = FALSE
  /\ thumbnails = FALSE
  /\ PoolAtRest
  /\ RunAtRest(segments)

\* Build combinations (cartesian product of all segments)
BuildCombinations ==
  /\ stage = "build"
  /\ combos' = BaseCombos(segments)
  /\ stage' = "overlays"
  /\ UNCHANGED <<segments, overlays, musicFiles, musicAll, namingTemplate,
                 usedNames, sanitizedNames, poolVars, runVars>>

\* Multiply by overlays if any
ExpandOverlays ==
  /\ stage = "overlays"
  /\ combos' = MultiplyOverlays(combos, overlays)
  /\ stage' = "music"
  /\ UNCHANGED <<segments, overlays, musicFiles, musicAll, namingTemplate,
                 usedNames, sanitizedNames, poolVars, runVars>>

\* Multiply by music if --music-all, else assign round-robin
ExpandMusic ==
  /\ stage = "music"
  /\ combos' = ApplyMusic(combos, musicFiles, musicAll)
  /\ stage' = "names"
  /\ UNCHANGED <<segments, overlays, musicFiles, musicAll, namingTemplate,
                 usedNames, sanitizedNames, poolVars, runVars>>

\* Generate names (with dedup): the map callback for the next combination.
GenerateName ==
  /\ stage = "names"
  /\ LET i == Len(sanitizedNames)
         r == NameCombo(namingTemplate, combos[i + 1], i, musicAll, usedNames)
     IN  /\ combos' = [combos EXCEPT ![i + 1] = r.combo]
         /\ usedNames' = r.usedNames
         /\ sanitizedNames' =
              Append(sanitizedNames,
                     sanitizeFilename(RawName(namingTemplate, combos[i + 1], i, musicAll)))
         /\ stage' = IF i + 1 = Len(combos) THEN "ready" ELSE "names"
  /\ UNCHANGED <<segments, overlays, musicFiles, musicAll, namingTemplate, poolVars,
                 runVars>>

NameNext == BuildCombinations \/ ExpandOverlays \/ ExpandMusic \/ GenerateName

NameSpec == NameInit /\ [][NameNext]_vars

(***************************************************************************)
(* The naming steps on hostile templates (specification SanitizeSpec):     *)
(* the value of --naming is any short string of the characters the         *)
(* sanitizer treats specially, or such a string after a long run of        *)
(* letters.                                                                *)
(***************************************************************************)
RawChars == {NUL, "/", "\\", ":", "_", ".", " ", "a"}

RawStrings(n) == UNION { [1..k -> RawChars] : k \in 0..n }

Repeat(c, n) == [i \in 1..n |-> c]

\* Names longer than the limit of the sanitizer.
LongRawNames ==
  { Repeat("a", MaxNameLen - 1) \o t \o <<"a">> : t \in RawStrings(MaxRawLen - 1) }

RawNames == RawStrings(MaxRawLen) \cup LongRawNames

SanitizeInit ==
  /\ segments \in SegmentLists(1)
  /\ overlays = <<>>
  /\ musicFiles = <<>>
  /\ musicAll = FALSE
  /\ \E naming \in RawNames : namingTemplate = ChooseTemplate(naming, segments)
  /\ combos = <<>>
  /\ usedNames = {}
  /\ sanitizedNames = <<>>
  /\ stage = "build"
  /\ captions = FALSE
  /\ thumbnails = FALSE
  /\ PoolAtRest
  /\ RunAtRest(segments)

SanitizeSpec == SanitizeInit /\ [][NameNext]_vars

(***************************************************************************)
(* The naming steps on item names that hold placeholder text               *)
(* (specification TemplateSpec): a hook and a cta pool of files named      *)
(* {0}, {1}, {cta}, {hook}, {index}, $& or x, and the templates of         *)
(* --naming that name labels, positions, the index and the date.           *)
(***************************************************************************)
ItemNames ==
  << Braced(<<"0">>), Braced(<<"1">>), Braced(SegmentLabels[2]), Braced(SegmentLabels[1]),
     Braced(IndexWord), <<"$", "&">>, <<"x">> >>

\* The pools of segment k: every run of MaxItems names of ItemNames.
ItemPools(k) ==
  { [j \in 1..MaxItems |-> Video(k, ItemNames[first + j - 1], Mp4)] :
      first \in 1..(Len(ItemNames) - MaxItems + 1) }

ItemSegments ==
  { << [label |-> SegmentLabels[1], videos |-> h],
       [label |-> SegmentLabels[2], videos |-> c] >> :
      h \in ItemPools(1), c \in ItemPools(2) } \cup { ExampleSegments }

ItemTemplates ==
  { NoTemplate,
    Braced(<<"0">>) \o <<"-">> \o Braced(<<"1">>),
    Braced(IndexWord) \o <<"_">> \o Braced(SegmentLabels[1]),
    Braced(SegmentLabels[2]) \o Braced(<<"0">>) \o Braced(DateWord),
    Braced(<<"1">>) \o Braced(SegmentLabels[1]) \o Braced(<<"1">>) }

TemplateInit ==
  /\ segments \in ItemSegments
  /\ overlays = <<>>
  /\ musicFiles = <<>>
  /\ musicAll = FALSE
  /\ \E naming \in ItemTemplates : namingTemplate = ChooseTemplate(naming, segments)
  /\ combos = <<>>
  /\ usedNames = {}
  /\ sanitizedNames = <<>>
  /\ stage = "build"
  /\ captions = FALSE
  /\ thumbnails = FALSE
  /\ PoolAtRest
  /\ RunAtRest(segments)

TemplateSpec == TemplateInit /\ [][NameNext]_vars

(***************************************************************************)
(* The render batch: the tasks, runWithConcurrency and its onComplete.     *)
(***************************************************************************)
JobCount == Len(combos)
\* combos[i].name, i counted from 0 as in the program
JobName(i) == combos[i + 1].name

\* s.replace(/suffix$/, rep)
ReplaceSuffix(s, suffix, rep) ==
  IF Len(s) >= Len(suffix) /\ SubSeq(s, Len(s) - Len(suffix) + 1, Len(s)) = suffix
  THEN SubSeq(s, 1, Len(s) - Len(suffix)) \o rep
  ELSE s

\* path.parse(file).name: the file name without its last extension.
LastDot(s) ==
  IF \E i \in DOMAIN s : s[i] = "."
  THEN CHOOSE i \in DOMAIN s : s[i] = "." /\ \A j \in DOMAIN s : s[j] = "." => j <= i
  ELSE 0
ParsedName(file) ==
  IF LastDot(file) > 1 THEN SubSeq(file, 1, LastDot(file) - 1) ELSE file

CaptionedMp4 == <<"_","c","a","p","t","i","o","n","e","d",".","m","p","4">>
Srt == <<".","s","r","t">>
Jpg == <<".","j","p","g">>

\* path.join(outDir, combo.name)
OutPath(name) == [dir |-> "output", file |-> name]
\* outPath.replace(/\.mp4$/, '_captioned.mp4')
CaptionedPath(name) == [dir |-> "output", file |-> ReplaceSuffix(name, Mp4, CaptionedMp4)]
\* path.join(outDir, path.parse(combo.name).name + '.srt')
SrtPath(name) == [dir |-> "output", file |-> ParsedName(name) \o Srt]
\* path.join(outDir, 'thumbnails', combo.name.replace(/\.mp4$/, '.jpg'))
ThumbPath(name) == [dir |-> "output/thumbnails", file |-> ReplaceSuffix(name, Mp4, Jpg)]

\* The file system: a function from the paths that exist to their content.
FileExists(f, p) == p \in DOMAIN f
WriteFile(f, p, content) == (p :> content) @@ f
RemoveFile(f, p) == [q \in DOMAIN f \ {p} |-> f[q]]
Content(i, kind) == [by |-> i, kind |-> kind]
Touch(t, i, paths) == [t EXCEPT ![i + 1] = @ \cup paths]
\* Job i invokes an external tool.
Invoke(v, i, tool) == [v EXCEPT ![i + 1] = Append(@, tool)]

\* How the external invocations can end.  A failed ffmpeg may leave a
\* truncated output file behind or none at all.
RenderOutcomes == {"ok", "fail", "fail_partial"}
WhisperOutcomes == {"srt", "no_srt", "throw"}
BurnOutcomes == {"ok", "rename_throws", "fail", "fail_partial"}
ThumbOutcomes == {"ok", "fail"}

\* The text of the error of the failed render of job i (stderr ||
\* error.message): one short line for a job of odd index, and five lines, the
\* last three of them longer than the report keeps, for a job of even index.
Line(c, n) == [k \in 1..n |-> c]
Stderr(i) ==
  IF i % 2 = 1
  THEN <<"E","r","r","o","r"," ">> \o IntToString(i) \o <<"\n">>
  ELSE <<"E","r","r","o","r"," ">> \o IntToString(i) \o <<"\n">>
         \o Line("w", ErrorLines) \o <<"\n">>
         \o IntToString(i) \o Line("x", MaxErrorLen \div 2) \o <<"\n">>
         \o Line("y", MaxErrorLen \div 2) \o <<"\n">>
         \o Line("z", MaxErrorLen \div 2)

\* message.split('\n').slice(-3).join(' ').substring(0, 200)
LineBreaks(m) == {k \in DOMAIN m : m[k] = "\n"}
LastLines(m, n) ==
  IF Cardinality(LineBreaks(m)) < n THEN m
  ELSE LET cut == CHOOSE k \in LineBreaks(m) :
                    Cardinality({j \in LineBreaks(m) : j >= k}) = n
       IN  SubSeq(m, cut + 1, Len(m))
\* A report that keeps the last lines whole.
ErrorTextUntruncated(message) ==
  MapClass(LastLines(message, ErrorLines), {"\n"}, " ")

ErrorText(message) ==
  Substring0(MapClass(LastLines(message, ErrorLines), {"\n"}, " "), MaxErrorLen)

Success(i) == [ok |-> TRUE, value |-> JobName(i)]
Failure(i) == [ok |-> FALSE, error |-> [message |-> Stderr(i)]]

(***************************************************************************)
(* The sequential render loop of v1.2.0, which the worker pool replaced.   *)
(***************************************************************************)
\* e.message.split('\n').slice(-3).join(' ').substring(0, 200)
LoopErrorText(message) ==
  Substring0(MapClass(LastLines(message, ErrorLines), {"\n"}, " "), MaxErrorLen)

\* An exception leaves the try block of one iteration: the primary render is
\* awaited in the block itself; the caption step and the thumbnail each run
\* in a try of their own whose catch is empty.
IterationThrows(a) ==
  LET renderThrows == a.render # "ok"
      captionsThrow == FALSE
      thumbThrows == FALSE
  IN  renderThrows \/ captionsThrow \/ thumbThrows

\* let success = 0; let failed = 0; const errors = []
LoopStart == [outcomes |-> <<>>, success |-> 0, failed |-> 0, errors |-> <<>>]

\* for (let i = 0; i < combos.length; i++) { try { ...; success++ }
\* catch (e) { failed++; errors.push({ name: combo.name, error: ... }) } }
\* with assignment[i + 1] the way the invocations of job i end.
RECURSIVE SequentialLoop(_, _, _)
SequentialLoop(i, assignment, acc) ==
  IF ~(i < Len(combos)) THEN acc
  ELSE IF ~IterationThrows(assignment[i + 1])
       THEN SequentialLoop(i + 1, assignment,
              [acc EXCEPT !.outcomes = Append(@, TRUE), !.success = @ + 1])
       ELSE SequentialLoop(i + 1, assignment,
              [acc EXCEPT !.outcomes = Append(@, FALSE), !.failed = @ + 1,
                          !.errors = Append(@, [name |-> combos[i + 1].name,
                                                error |-> LoopErrorText(Stderr(i))])])

\* A promise that is rejected only when ffmpeg left no file behind.
RejectsOnlyWithoutFile(o) == o = "fail"

\* runFfmpeg: if (error) reject(new Error(stderr || error.message))
Rejects(o) == o # "ok"

\* A pool that starts one worker per task.
WorkerPerTask(concurrency, n) == n

\* Math.min(concurrency, tasks.length)
WorkerCount(concurrency, n) == Min(concurrency, n)

\* A loop that stops one task early.
LoopConditionOffByOne == index < Len(combos) - 1

\* while (index < tasks.length)
LoopCondition == index < Len(combos)

\* A worker whose loop ends with the first failed task.
ContinuesAfterSuccess(result) == result.ok

\* try { ... } catch (e) { results[i] = { ok: false, error: e } }: the error
\* of a task is caught, the worker goes on whatever the result.
ContinuesAfter(result) == TRUE

\* A worker that takes the task before the one at the shared index.
TakenIndexStale == index - 1

\* const i = index++ : the task a worker takes next.
TakenIndex == index

\* A result array filled in completion order.
ResultSlotByCompletion(i) == completed + 1

\* results[i] = ... : the slot a worker writes the result of its task i to.
ResultSlot(i) == i + 1

\* A callback that names a failed job by the count of completed jobs.
OnCompleteByCount(n, idx, result) ==
  /\ progress' = [completed |-> n, idx |-> idx, result |-> result]
  /\ IF result.ok
     THEN /\ success' = success + 1
          /\ UNCHANGED <<failed, errors>>
     ELSE /\ failed' = failed + 1
          /\ errors' = Append(errors, [name |-> combos[n].name,
                                       error |-> ErrorText(result.error.message)])
          /\ UNCHANGED success

\* A callback that is called for the tasks that succeeded only.
OnCompleteOnSuccess(n, idx, result) ==
  IF result.ok
  THEN /\ success' = success + 1
       /\ progress' = [completed |-> n, idx |-> idx, result |-> result]
       /\ UNCHANGED <<failed, errors>>
  ELSE UNCHANGED <<success, failed, errors, progress>>

\* if (onComplete) onComplete(completed, i, results[i]) with the callback of
\* the action: (completed, idx, result) => ...; bar.update(completed, ...)
OnComplete(n, idx, result) ==
  /\ progress' = [completed |-> n, idx |-> idx, result |-> result]
  /\ IF result.ok
     THEN /\ success' = success + 1
          /\ UNCHANGED <<failed, errors>>
     ELSE /\ failed' = failed + 1
          /\ errors' = Append(errors, [name |-> combos[idx + 1].name,
                                       error |-> ErrorText(result.error.message)])
          /\ UNCHANGED success

\* The end of one iteration of worker w's loop and the start of the next:
\* the result is stored, onComplete is called, and the worker takes the next
\* task (which runs up to its first await, the render) or leaves the loop.
Complete(w, result, v) ==
  /\ results' = [results EXCEPT ![ResultSlot(w.i)] = result]
  /\ completed' = completed + 1
  /\ OnComplete(completed', w.i, result)
  /\ IF ContinuesAfter(result) /\ LoopCondition
     THEN /\ workers' = (workers \ {w}) \cup {[i |-> TakenIndex, pc |-> "render"]}
          /\ index' = index + 1
          /\ invoked' = Invoke(v, TakenIndex, "render")
     ELSE /\ workers' = (workers \ {w}) \cup {[i |-> w.i, pc |-> "done"]}
          /\ invoked' = v
          /\ UNCHANGED index

\* The task of worker w starts its next ffmpeg invocation and awaits it.
Suspend(w, pc, v) ==
  /\ workers' = (workers \ {w}) \cup {[i |-> w.i, pc |-> pc]}
  /\ invoked' = Invoke(v, w.i, pc)
  /\ UNCHANGED <<index, completed, results, success, failed, errors, progress>>

\* Thumbnail: the task starts the extraction, or returns combo.name.
ThumbnailStep(w, f, t, v) ==
  /\ fs' = f
  /\ touched' = t
  /\ IF thumbnails THEN Suspend(w, "thumb", v) ELSE Complete(w, Success(w.i), v)

\* Captions: whisper runs synchronously; the burn is started when the
\* subtitle file exists; an exception removes the temporary file.
CaptionStep(w, whisper, f, t, v) ==
  LET name == JobName(w.i)
      srt == SrtPath(name)
      cap == CaptionedPath(name)
      f1 == IF whisper = "srt" THEN WriteFile(f, srt, Content(w.i, "srt")) ELSE f
      t1 == IF whisper = "srt" THEN Touch(t, w.i, {srt}) ELSE t
      v1 == Invoke(v, w.i, "whisper")
  IN  IF whisper = "throw"
      THEN IF FileExists(f, cap)
           THEN ThumbnailStep(w, RemoveFile(f, cap), Touch(t, w.i, {cap}), v1)
           ELSE ThumbnailStep(w, f, t, v1)
      ELSE IF FileExists(f1, srt)
           THEN fs' = f1 /\ touched' = t1 /\ Suspend(w, "burn", v1)
           ELSE ThumbnailStep(w, f1, t1, v1)

\* async function runWithConcurrency(tasks, concurrency, onComplete): the
\* call creates the workers; each takes a task and runs it to its first await.
RunWithConcurrency ==
  /\ stage = "ready"
  /\ ~opts.dryRun
  /\ stage' = "pool"
  /\ index' = WorkerCount(MAX_CONCURRENCY, JobCount)
  /\ completed' = 0
  /\ results' = [k \in 1..JobCount |-> EmptySlot]
  /\ workers' = {[i |-> k, pc |-> "render"] :
                   k \in 0..(WorkerCount(MAX_CONCURRENCY, JobCount) - 1)}
  /\ invoked' = [k \in 1..JobCount |->
                   IF k <= WorkerCount(MAX_CONCURRENCY, JobCount)
                   THEN <<"render">> ELSE <<>>]
  /\ UNCHANGED <<runVars, nameVars, captions, thumbnails, success, failed, errors, progress,
                 fs, exitStatus, touched>>

\* The primary render of worker w's task ends.
RenderExit(w) ==
  /\ stage = "pool"
  /\ w.pc = "render"
  /\ \E o \in RenderOutcomes :
       LET out == OutPath(JobName(w.i))
           f1 == CASE o = "ok" -> WriteFile(fs, out, Content(w.i, "render"))
                   [] o = "fail_partial" -> WriteFile(fs, out, Content(w.i, "partial"))
                   [] OTHER -> fs
           t1 == IF o = "fail" THEN touched ELSE Touch(touched, w.i, {out})
       IN  /\ exitStatus' = [exitStatus EXCEPT ![w.i + 1] = IF o = "ok" THEN "ok" ELSE "fail"]
           /\ IF Rejects(o)
              THEN fs' = f1 /\ touched' = t1 /\ Complete(w, Failure(w.i), invoked)
              ELSE IF captions
                   THEN \E whisper \in WhisperOutcomes :
                          CaptionStep(w, whisper, f1, t1, invoked)
                   ELSE ThumbnailStep(w, f1, t1, invoked)
  /\ UNCHANGED <<runVars, nameVars, stage, captions, thumbnails>>

\* The subtitle burn of worker w's task ends.
BurnExit(w) ==
  /\ stage = "pool"
  /\ w.pc = "burn"
  /\ \E o \in BurnOutcomes :
       LET name == JobName(w.i)
           out == OutPath(name)
           cap == CaptionedPath(name)
           srt == SrtPath(name)
           f1 == CASE o \in {"ok", "rename_throws"} ->
                        WriteFile(fs, cap, Content(w.i, "captioned"))
                   [] o = "fail_partial" -> WriteFile(fs, cap, Content(w.i, "partial"))
                   [] OTHER -> fs
           t1 == IF o = "fail" THEN touched ELSE Touch(touched, w.i, {cap})
       IN  IF o = "ok"
           THEN \* fs.renameSync(captionedPath, outPath); try { unlinkSync(baseSrt) }
                LET f2 == WriteFile(RemoveFile(f1, cap), out, f1[cap])
                    t2 == Touch(t1, w.i, {cap, out})
                IN  IF FileExists(f2, srt)
                    THEN ThumbnailStep(w, RemoveFile(f2, srt), Touch(t2, w.i, {srt}),
                                       invoked)
                    ELSE ThumbnailStep(w, f2, t2, invoked)
           ELSE \* catch: remove the temporary file if it exists
                IF FileExists(f1, cap)
                THEN ThumbnailStep(w, RemoveFile(f1, cap), Touch(t1, w.i, {cap}), invoked)
                ELSE ThumbnailStep(w, f1, t1, invoked)
  /\ UNCHANGED <<runVars, nameVars, stage, captions, thumbnails, exitStatus>>

\* The thumbnail extraction of worker w's task ends; its failure is ignored.
ThumbExit(w) ==
  /\ stage = "pool"
  /\ w.pc = "thumb"
  /\ \E o \in ThumbOutcomes :
       LET thumb == ThumbPath(JobName(w.i))
       IN  /\ fs' = IF o = "ok" THEN WriteFile(fs, thumb, Content(w.i, "thumb")) ELSE fs
           /\ touched' = IF o = "ok" THEN Touch(touched, w.i, {thumb}) ELSE touched
           /\ Complete(w, Success(w.i), invoked)
  /\ UNCHANGED <<runVars, nameVars, stage, captions, thumbnails, exitStatus>>

\* await Promise.all(workers); return results
Return ==
  /\ stage = "pool"
  /\ \A w \in workers : w.pc = "done"
  /\ stage' = "report"
  /\ UNCHANGED <<runVars, nameVars, poolVars>>

(***************************************************************************)
(* A render run starts where name generation ended.  The batches are the   *)
(* ones of a single segment whose folder holds n files.                    *)
(***************************************************************************)
TaskFile(k) == Video(1, <<"v">> \o IntToString(k), Mp4)
CaptionedFile == Video(1, <<"v","1","_","c","a","p","t","i","o","n","e","d">>, Mp4)

\* The sorted folder: v1 .. vn, or v1, v1_captioned, v2 .. v(n-1).
TaskVideos(n, withCaptioned) ==
  IF withCaptioned
  THEN <<TaskFile(1), CaptionedFile>> \o [k \in 1..(n - 2) |-> TaskFile(k + 1)]
  ELSE [k \in 1..n |-> TaskFile(k)]

Expanded(segs, ovs, music, all) ==
  ApplyMusic(MultiplyOverlays(BaseCombos(segs), ovs), music, all)

Init ==
  /\ \E n \in 1..MaxJobs, withCaptioned \in BOOLEAN :
       /\ withCaptioned => n >= 2
       /\ segments = << [label |-> SegmentLabels[1],
                         videos |-> TaskVideos(n, withCaptioned)] >>
  /\ overlays = <<>>
  /\ musicFiles = <<>>
  /\ musicAll = FALSE
  /\ namingTemplate = defaultNaming(segments)
  /\ combos = NameAll(namingTemplate,
                      Expanded(segments, overlays, musicFiles, musicAll),
                      0, musicAll, {})
  /\ usedNames = {UsedKey(ParsedName(combos[c].name)) : c \in DOMAIN combos}
  /\ sanitizedNames =
       [c \in DOMAIN combos |->
          sanitizeFilename(RawName(namingTemplate, combos[c], c - 1, musicAll))]
  /\ stage = "ready"
  /\ captions \in BOOLEAN
  /\ thumbnails \in BOOLEAN
  /\ (captions \/ thumbnails) => Len(combos) <= MaxPostJobs
  /\ index = 0
  /\ completed = 0
  /\ results = <<>>
  /\ workers = {}
  /\ success = 0
  /\ failed = 0
  /\ errors = <<>>
  /\ progress = NoProgress
  /\ fs = <<>>
  /\ exitStatus = [c \in DOMAIN combos |-> "none"]
  /\ touched = [c \in DOMAIN combos |-> {}]
  /\ invoked = [c \in DOMAIN combos |-> <<>>]
  /\ RunAtRest(segments)

Next ==
  \/ RunWithConcurrency
  \/ \E w \in workers : RenderExit(w)
  \/ \E w \in workers : BurnExit(w)
  \/ \E w \in workers : ThumbExit(w)
  \/ Return

Spec == Init /\ [][Next]_vars

\* Every external invocation eventually returns and the event loop runs the
\* callback of every invocation that has returned.
FairSpec == Spec /\ WF_vars(Next)

(***************************************************************************)
(* The start of the action callback: segments, trims, size, music,         *)
(* overlays, pre-flight and the audio probes.  The folders of the disk:    *)
(* hooks holds two videos, ctas and bodies one each, empty holds no video, *)
(* notes.txt is a file, music holds one track, any other path is missing.  *)
(***************************************************************************)
Chars(k) == DirArg(SegmentDirs[k])
EmptyDir == <<"e","m","p","t","y">>
NotesFile == <<"n","o","t","e","s",".","t","x","t">>
MusicDir == <<"m","u","s","i","c">>
MissingPath == <<"n","o","n","e">>

Folder(dir) ==
  CASE dir = Chars(1) ->
         [exists |-> TRUE, isDirectory |-> TRUE, videos |-> SubSeq(FolderFiles(1), 1, 2)]
    [] dir = Chars(2) ->
         [exists |-> TRUE, isDirectory |-> TRUE, videos |-> SubSeq(FolderFiles(2), 1, 1)]
    [] dir = Chars(3) ->
         [exists |-> TRUE, isDirectory |-> TRUE, videos |-> SubSeq(FolderFiles(3), 1, 1)]
    [] dir \in {EmptyDir, MusicDir} ->
         [exists |-> TRUE, isDirectory |-> TRUE, videos |-> <<>>]
    [] dir = NotesFile ->
         [exists |-> TRUE, isDirectory |-> FALSE, videos |-> <<>>]
    [] OTHER ->
         [exists |-> FALSE, isDirectory |-> FALSE, videos |-> <<>>]

\* The result of a step that may call process.exit(1).
Exited == [exit |-> TRUE, value |-> <<>>]
Value(v) == [exit |-> FALSE, value |-> v]

getVideos(dir) ==
  IF dir = <<>> THEN Value(<<>>)
  ELSE IF ~Folder(dir).exists \/ ~Folder(dir).isDirectory THEN Exited
  ELSE IF Folder(dir).videos = <<>> THEN Exited
  ELSE Value(Folder(dir).videos)

\* seg.indexOf(':'), counted from 1; 0 when there is none
IndexOf(s, c) ==
  IF \E i \in DOMAIN s : s[i] = c
  THEN CHOOSE i \in DOMAIN s : s[i] = c /\ \A j \in 1..(i - 1) : s[j] # c
  ELSE 0

\* s.trim()
Trim(s) == TrimEnd(TrimStart(s, SpaceChars), SpaceChars)

RECURSIVE ParseSegmentArgs(_, _)
ParseSegmentArgs(segArgs, segs) ==
  IF segArgs = <<>> THEN Value(segs)
  ELSE LET seg == Head(segArgs)
           colonIdx == IndexOf(seg, ":")
           label == Trim(SubSeq(seg, 1, colonIdx - 1))
           dir == Trim(SubSeq(seg, colonIdx + 1, Len(seg)))
       IN  IF colonIdx = 0 \/ label = <<>> \/ dir = <<>> \/ getVideos(dir).exit
           THEN Exited
           ELSE ParseSegmentArgs(Tail(segArgs),
                                 Append(segs, [label |-> label,
                                               videos |-> getVideos(dir).value]))

parseSegments(segArgs) ==
  LET r == ParseSegmentArgs(segArgs, <<>>)
  IN  IF ~r.exit /\ r.value = <<>> THEN Exited ELSE r

\* Classic mode: hook, body when given, cta.
ClassicSegments(o) ==
  IF o.hooks = <<>> \/ o.ctas = <<>> THEN Exited
  ELSE IF getVideos(o.hooks).exit THEN Exited
  ELSE IF o.bodies # <<>> /\ getVideos(o.bodies).exit THEN Exited
  ELSE IF getVideos(o.ctas).exit THEN Exited
  ELSE Value(<< [label |-> SegmentLabels[1], videos |-> getVideos(o.hooks).value] >>
             \o (IF o.bodies # <<>>
                 THEN << [label |-> SegmentLabels[3], videos |-> getVideos(o.bodies).value] >>
                 ELSE <<>>)
             \o << [label |-> SegmentLabels[2], videos |-> getVideos(o.ctas).value] >>)

\* if (opts.segments && opts.segments.length) parseSegments(...) else classic
SegmentsOf(o) ==
  IF o.segments # <<>> THEN parseSegments(o.segments) ELSE ClassicSegments(o)

\* The trim options in the order they are parsed: hook, body, cta.
TrimOrder(o) ==
  SelectSeq(<< <<SegmentLabels[1], o.trimHook>>, <<SegmentLabels[3], o.trimBody>>,
               <<SegmentLabels[2], o.trimCta>> >>,
            LAMBDA t : t[2] # <<>>)

\* The trim map after the first k parsed options.
ParsedTrims(o, k) ==
  [label \in {TrimOrder(o)[j][1] : j \in 1..k} |->
     parseTrim((CHOOSE t \in TrimOptions(o) : t[1] = label)[2])]

\* The number of options parsed before the process exits, or all of them.
ParsedBeforeExit(o) ==
  LET bad == {j \in DOMAIN TrimOrder(o) : parseTrim(TrimOrder(o)[j][2]) = Exit}
  IN  IF bad = {} THEN Len(TrimOrder(o))
      ELSE (CHOOSE j \in bad : \A i \in bad : j <= i) - 1

\* A size check that accepts odd numbers.
InvalidSizeUnlessOdd(n) == isNaN(n) \/ n.value <= 0

\* isNaN(w) || w <= 0 || w % 2 !== 0
InvalidSize(n) == isNaN(n) \/ n.value <= 0 \/ n.value % 2 # 0

\* getAudioFiles(opts.music)
getAudioFiles(input) ==
  IF input = <<>> THEN Value(<<>>)
  ELSE IF ~Folder(input).exists THEN Exited
  ELSE IF input = MusicDir THEN Value(SubSeq(MusicFolder, 1, 1))
  ELSE Exited

\* parseOverlays(opts.overlay, opts.overlays)
parseOverlays(overlayArg, overlaysFileArg) ==
  IF overlaysFileArg # <<>> /\ ~Folder(overlaysFileArg).exists THEN Exited
  ELSE Value(overlayArg)

\* process.exit(1)
ProcessExit ==
  /\ exitCode' = <<1>>
  /\ stage' = "exit"

DetermineSegments ==
  /\ stage = "segments"
  /\ IF SegmentsOf(opts).exit
     THEN ProcessExit /\ UNCHANGED segments
     ELSE /\ segments' = SegmentsOf(opts).value
          /\ stage' = "trims"
          /\ UNCHANGED exitCode
  /\ UNCHANGED <<overlays, musicFiles, musicAll, namingTemplate, combos, usedNames,
                 sanitizedNames, poolVars, opts, env, trimMap, audioProbeCache, probeLog,
                 request>>

\* Parse trim specs
ParseTrims ==
  /\ stage = "trims"
  /\ trimMap' = ParsedTrims(opts, ParsedBeforeExit(opts))
  /\ IF ParsedBeforeExit(opts) < Len(TrimOrder(opts))
     THEN ProcessExit
     ELSE stage' = "size" /\ UNCHANGED exitCode
  /\ UNCHANGED <<nameVars, poolVars, opts, env, audioProbeCache, probeLog, request>>

\* Validate width/height
ValidateSize ==
  /\ stage = "size"
  /\ IF InvalidSize(parseInt(opts.width)) \/ InvalidSize(parseInt(opts.height))
     THEN ProcessExit
     ELSE stage' = "resolve" /\ UNCHANGED exitCode
  /\ UNCHANGED <<nameVars, poolVars, opts, env, trimMap, audioProbeCache, probeLog,
                 request>>

\* Resolve music, resolve overlays
ResolveInputs ==
  /\ stage = "resolve"
  /\ IF getAudioFiles(opts.music).exit
     THEN ProcessExit /\ UNCHANGED <<musicFiles, overlays>>
     ELSE /\ musicFiles' = getAudioFiles(opts.music).value
          /\ IF parseOverlays(opts.overlay, opts.overlays).exit
             THEN ProcessExit /\ UNCHANGED overlays
             ELSE /\ overlays' = parseOverlays(opts.overlay, opts.overlays).value
                  /\ stage' = "preflight"
                  /\ UNCHANGED exitCode
  /\ UNCHANGED <<segments, musicAll, namingTemplate, combos, usedNames,
                 sanitizedNames, poolVars, opts, env, trimMap, audioProbeCache, probeLog,
                 request>>

\* Pre-flight: checkFfmpeg, checkWhisper
Preflight ==
  /\ stage = "preflight"
  /\ IF ~opts.dryRun /\ (~env.ffmpeg \/ (captions /\ ~env.whisper))
     THEN ProcessExit
     ELSE stage' = "probe" /\ UNCHANGED exitCode
  /\ UNCHANGED <<nameVars, poolVars, opts, env, trimMap, audioProbeCache, probeLog,
                 request>>

\* execSync(ffprobe ...).trim().length > 0, false when execSync throws
hasAudioStream(answer) ==
  IF answer.error THEN FALSE ELSE Len(Trim(answer.stdout)) > 0

\* What ffprobe can answer to the audio probe.
AudioAnswers == {Thrown, Printed(<<>>), Printed(<<"\n">>), Printed(AudioLine)}

\* audioProbeCache.set(fp, hasAudioStream(fp)) for the probes of a log: the
\* last value set for a path stays.
CacheOf(log) ==
  [p \in {log[k].path : k \in DOMAIN log} |->
     hasAudioStream(log[CHOOSE k \in DOMAIN log :
                          log[k].path = p /\ \A j \in DOMAIN log :
                                                log[j].path = p => j <= k].answer)]

\* Pre-probe audio streams: one hasAudioStream call for every path of the
\* set; the naming template of the rest of the run is opts.naming ||
\* defaultNaming.
ProbeAudio ==
  /\ stage = "probe"
  /\ IF opts.dryRun
     THEN UNCHANGED <<audioProbeCache, probeLog>>
     ELSE \E answers \in [DOMAIN UniquePaths(segments) -> AudioAnswers] :
            /\ probeLog' = [k \in DOMAIN answers |->
                              [path |-> UniquePaths(segments)[k], answer |-> answers[k]]]
            /\ audioProbeCache' = CacheOf(probeLog')
  /\ namingTemplate' = defaultNaming(segments)
  /\ stage' = "build"
  /\ UNCHANGED <<segments, overlays, musicFiles, musicAll, combos, usedNames,
                 sanitizedNames, poolVars, opts, env, exitCode, trimMap, request>>

\* if (opts.dryRun) { ...; return }
DryRun ==
  /\ stage = "ready"
  /\ opts.dryRun
  /\ stage' = "done"
  /\ UNCHANGED <<nameVars, poolVars, runVars>>

(***************************************************************************)
(* The runs of the configuration steps: every value of --trim-hook up to   *)
(* MaxTrimLen characters after an optional "last", and a choice of sizes,  *)
(* of segment options, of music and overlay paths and of tools.            *)
(***************************************************************************)
TrimChars == {"0", "1", "3", ".", "-", "x"}

RECURSIVE Strings(_, _)
Strings(chars, n) ==
  IF n = 0 THEN { <<>> }
  ELSE Strings(chars, n - 1)
         \cup { Append(s, c) : s \in {t \in Strings(chars, n - 1) : Len(t) = n - 1},
                               c \in chars }

TrimStrings ==
  { prefix \o body : prefix \in { <<>>, Last, <<"L","A","S","T">> },
                     body \in Strings(TrimChars, MaxTrimLen) }

SizeStrings ==
  { <<"1","0","8","0">>, <<"1","0","8","1">>, <<"0">>, <<"-","2">>, <<"a","b","c">>,
    <<"7","2","0","p","x">>, <<>> }

SegmentArgChoices ==
  { << SegmentLabels[1] \o <<":">> \o Chars(1) >>,
    << SegmentLabels[1] \o <<":">> \o Chars(1), SegmentLabels[2] \o <<":", " ">> \o Chars(2) >>,
    << Chars(1) >>,
    << <<":">> \o Chars(1) >>,
    << SegmentLabels[1] \o <<":", " ">> >>,
    << SegmentLabels[1] \o <<":">> \o Chars(1), SegmentLabels[2] \o <<":">> \o EmptyDir >>,
    << SegmentLabels[1] \o <<":">> \o MissingPath >> }

TrimRuns ==
  { [DefaultOpts EXCEPT !.trimHook = t] : t \in TrimStrings }
    \cup { [DefaultOpts EXCEPT !.trimHook = <<"l","a","s","t","3">>, !.trimCta = t] :
             t \in { <<"3","-","1">>, <<"1","-","3">> } }
    \cup { [DefaultOpts EXCEPT !.bodies = Chars(3), !.trimBody = t, !.trimCta = <<"1">>] :
             t \in { <<"0">>, <<"0",".","1">> } }

SizeRuns ==
  { [DefaultOpts EXCEPT !.width = w, !.height = h, !.dryRun = d] :
      w \in SizeStrings, h \in SizeStrings, d \in BOOLEAN }

ClassicRuns ==
  { [DefaultOpts EXCEPT !.hooks = h, !.ctas = c, !.bodies = b, !.dryRun = d] :
      h \in { <<>>, Chars(1), EmptyDir, NotesFile, MissingPath },
      c \in { <<>>, Chars(2), EmptyDir },
      b \in { <<>>, Chars(3), EmptyDir },
      d \in BOOLEAN }

CustomRuns ==
  { [DefaultOpts EXCEPT !.segments = a, !.hooks = h, !.ctas = <<>>] :
      a \in SegmentArgChoices, h \in { <<>>, Chars(1), EmptyDir } }

ResolveRuns ==
  { [DefaultOpts EXCEPT !.music = m, !.overlay = t, !.overlays = f, !.dryRun = d] :
      m \in { <<>>, MusicDir, MissingPath, EmptyDir },
      t \in { <<>>, SubSeq(OverlayTexts, 1, 1) },
      f \in { <<>>, NotesFile, MissingPath },
      d \in BOOLEAN }

ConfigInit ==
  /\ opts \in TrimRuns \cup SizeRuns \cup ClassicRuns \cup CustomRuns \cup ResolveRuns
  /\ env \in [ffmpeg : BOOLEAN, whisper : BOOLEAN]
  /\ captions \in BOOLEAN
  /\ (env # Installed \/ captions) => opts \in ResolveRuns
  /\ thumbnails = FALSE
  /\ segments = <<>>
  /\ overlays = <<>>
  /\ musicFiles = <<>>
  /\ musicAll = FALSE
  /\ namingTemplate = <<>>
  /\ combos = <<>>
  /\ usedNames = {}
  /\ sanitizedNames = <<>>
  /\ stage = "segments"
  /\ PoolAtRest
  /\ exitCode = <<>>
  /\ trimMap = <<>>
  /\ audioProbeCache = <<>>
  /\ probeLog = <<>>
  /\ request = NoRequest

ConfigNext ==
  \/ DetermineSegments
  \/ ParseTrims
  \/ ValidateSize
  \/ ResolveInputs
  \/ Preflight
  \/ ProbeAudio
  \/ BuildCombinations
  \/ ExpandOverlays
  \/ ExpandMusic
  \/ GenerateName
  \/ DryRun
  \/ RunWithConcurrency

ConfigSpec == ConfigInit /\ [][ConfigNext]_vars

(***************************************************************************)
(* A rendering run from the audio probes to the report (specification      *)
(* RunSpec): a hook pool of two files, or a hook and a cta segment that    *)
(* name the same folder, so that one path belongs to two segments.         *)
(***************************************************************************)
SharedFolder ==
  << [label |-> SegmentLabels[1], videos |-> << TaskFile(1) >>],
     [label |-> SegmentLabels[2], videos |-> << TaskFile(1), TaskFile(2) >>] >>

RunInit ==
  /\ segments \in { << [label |-> SegmentLabels[1], videos |-> TaskVideos(2, FALSE)] >>,
                     SharedFolder }
  /\ overlays = <<>>
  /\ musicFiles = <<>>
  /\ musicAll = FALSE
  /\ namingTemplate = <<>>
  /\ combos = <<>>
  /\ usedNames = {}
  /\ sanitizedNames = <<>>
  /\ stage = "probe"
  /\ PoolAtRest
  /\ captions \in BOOLEAN
  /\ thumbnails \in BOOLEAN
  /\ opts = CustomOpts(segments)
  /\ exitCode = <<>>
  /\ env = Installed
  /\ trimMap = TrimMapOf(opts)
  /\ audioProbeCache = <<>>
  /\ probeLog = <<>>
  /\ request = NoRequest

RunNext ==
  \/ ProbeAudio
  \/ BuildCombinations
  \/ ExpandOverlays
  \/ ExpandMusic
  \/ GenerateName
  \/ Next

RunSpec == RunInit /\ [][RunNext]_vars

(***************************************************************************)
(* The start of a task: from its combination to the command it hands to    *)
(* runFfmpeg.  The tasks start in index order; the filter list the task    *)
(* builds first (lines 648-696) is discarded and is no part of the         *)
(* command.                                                                *)
(***************************************************************************)
\* What ffprobe can answer to the duration probe of a Last trim.
ProbeOutcomes ==
  { Thrown,
    Printed(<<"N","/","A","\n">>),
    Printed(<<>>),
    Printed(<<"0",".","0","\n">>),
    Printed(<<"-","1">>),
    Printed(<<"1",".","5","\n">>),
    Printed(<<"2","\n">>),
    Printed(<<"3",".","5","\n">>) }
\* No probe: the part has no Last trim.
NotProbed == [error |-> TRUE, stdout |-> <<>>, skipped |-> TRUE]

\* The values of --trim-hook and --trim-cta of the runs.
GraphTrims ==
  { << <<>>, <<>> >>,
    << <<"l","a","s","t","2">>, <<>> >>,
    << <<"1","-","3">>, <<>> >>,
    << <<"2">>, <<"L","a","s","t","1",".","5">> >>,
    << <<"l","a","s","t","2">>, <<"l","a","s","t","2">> >> }

GraphOverlayChoices ==
  { <<>>,
    << <<"a","'","b",":","\\">> >>,
    << <<"S","A","L","E">>, <<"5","0","%"," ","o","f","f",":"," ","'","x","'">> >> }

\* One video per segment.
GraphSegments(n) ==
  [k \in 1..n |-> [label |-> SegmentLabels[k], videos |-> <<FolderFiles(k)[1]>>]]

\* The caches in which every file, no file, only the first file, or every
\* file but the first has an audio stream.
CacheChoices(paths) ==
  LET first == CHOOSE p \in paths : \A q \in paths : q.dir = "hooks" => p = q
  IN  { [p \in paths |-> TRUE], [p \in paths |-> FALSE],
        [p \in paths |-> p = first], [p \in paths |-> p # first] }

GraphInit ==
  /\ \E n \in 1..MaxParts : segments = GraphSegments(n)
  /\ overlays \in GraphOverlayChoices
  /\ musicFiles \in {<<>>, SubSeq(MusicFolder, 1, 1)}
  /\ musicAll = FALSE
  /\ namingTemplate = defaultNaming(segments)
  /\ combos = NameAll(namingTemplate,
                      Expanded(segments, overlays, musicFiles, musicAll),
                      0, musicAll, {})
  /\ usedNames = {UsedKey(ParsedName(combos[c].name)) : c \in DOMAIN combos}
  /\ sanitizedNames =
       [c \in DOMAIN combos |->
          sanitizeFilename(RawName(namingTemplate, combos[c], c - 1, musicAll))]
  /\ stage = "ready"
  /\ captions = FALSE
  /\ thumbnails = FALSE
  /\ PoolAtRest
  /\ \E t \in GraphTrims :
       opts = [CustomOpts(segments) EXCEPT !.trimHook = t[1], !.trimCta = t[2]]
  /\ exitCode = <<>>
  /\ env = Installed
  /\ trimMap = TrimMapOf(opts)
  /\ audioProbeCache \in CacheChoices(AllPaths(segments))
  /\ probeLog = LogOf(audioProbeCache, segments)
  /\ request = NoRequest

\* const i = index++; tasks[i]() up to its await runFfmpeg(cmd)
StartTask ==
  /\ stage = "ready"
  /\ index < Len(combos)
  /\ LET combo == combos[index + 1]
         n == Len(combo.parts)
         last(k) == TrimFor(trimMap, combo.parts[k].label).mode = "last"
     IN  \E answers \in [1..n -> ProbeOutcomes] :
           LET probes == [k \in 1..n |-> IF last(k) THEN answers[k] ELSE NotProbed]
           IN  /\ \A k \in 1..n : ~last(k) => answers[k] = Thrown
               /\ request' =
                    [job |-> index,
                     probes |-> probes,
                     cmd |-> RenderRequest(combo, trimMap, audioProbeCache,
                                           [k \in 1..n |-> getVideoDuration(probes[k])],
                                           parseInt(opts.width).value,
                                           parseInt(opts.height).value,
                                           opts, OutPath(JobName(index)))]
  /\ index' = index + 1
  /\ UNCHANGED <<nameVars, stage, captions, thumbnails, completed, results, workers,
                 success, failed, errors, progress, fs, exitStatus, touched, invoked,
                 opts, exitCode, env, trimMap, audioProbeCache, probeLog>>

GraphNext == StartTask

GraphSpec == GraphInit /\ [][GraphNext]_vars

(***************************************************************************)
(* Properties of the worker pool (specification Spec).                     *)
(***************************************************************************)
Jobs == 0..(JobCount - 1)
IsTerminal(i) == results # <<>> /\ "ok" \in DOMAIN results[i + 1]
\* The jobs a worker has taken that have no result yet.
InFlight == {i \in Jobs : i < index /\ ~IsTerminal(i)}

\* C1: while runWithConcurrency executes, the number of jobs started and not
\* yet terminal is at most MAX_CONCURRENCY, and at most
\* min(MAX_CONCURRENCY, number of jobs) workers exist.
C1_BoundedConcurrency ==
  /\ Cardinality(InFlight) <= MAX_CONCURRENCY
  /\ Cardinality(workers) <= Min(MAX_CONCURRENCY, JobCount)
  /\ Cardinality({w \in workers : w.pc # "done"}) = Cardinality(InFlight)

\* The pool is full, has already finished a job, and has refilled.
C1_Witness ==
  /\ Cardinality(InFlight) = MAX_CONCURRENCY
  /\ completed >= 1
  /\ JobCount > MAX_CONCURRENCY

\* C2: when every external invocation eventually returns, runWithConcurrency
\* eventually returns with a result recorded for every job index.
C2_Terminates ==
  <>(stage = "report" /\ \A i \in Jobs : IsTerminal(i))

\* A batch larger than the pool has returned with successes and failures.
C2_Witness ==
  /\ stage = "report"
  /\ JobCount > MAX_CONCURRENCY
  /\ success >= 1
  /\ failed >= 2
  /\ \A i \in Jobs : IsTerminal(i)

\* C3: results[i] is the outcome of the i-th submitted job, whatever the
\* completion order: its name when its render succeeded, its own error when
\* it failed.
C3_ResultAtSubmissionIndex ==
  \A i \in Jobs :
    IsTerminal(i) =>
      IF exitStatus[i + 1] = "ok"
      THEN results[i + 1].ok /\ results[i + 1].value = combos[i + 1].name
      ELSE /\ exitStatus[i + 1] = "fail"
           /\ ~results[i + 1].ok
           /\ results[i + 1].error.message = Stderr(i)

\* The second job failed before the first one did, and the batch has returned.
C3_Witness ==
  /\ stage = "report"
  /\ Len(errors) >= 2
  /\ errors[1].name = JobName(1)
  /\ errors[2].name = JobName(0)
  /\ ~results[1].ok
  /\ ~results[2].ok

\* C4: a failed render is recorded for that job only; every other job is
\* still started and reaches its own terminal state with its own outcome.
C4_FailureIsolated ==
  stage = "report" =>
    /\ completed = JobCount
    /\ \A i \in Jobs :
         /\ exitStatus[i + 1] # "none"
         /\ IsTerminal(i)
         /\ results[i + 1].ok = (exitStatus[i + 1] = "ok")

\* Every job of the first round failed and the job started after them, by a
\* worker whose previous job had failed, succeeded.
C4_Witness ==
  /\ stage = "report"
  /\ JobCount > MAX_CONCURRENCY
  /\ \A i \in 0..(MAX_CONCURRENCY - 1) : ~results[i + 1].ok
  /\ results[JobCount].ok

\* C6: no job ever writes, renames onto or deletes a path that is another
\* job's output path.
C6_NoOutputContention ==
  \A i \in Jobs : \A j \in Jobs :
    i # j => OutPath(JobName(j)) \notin touched[i + 1]

(***************************************************************************)
(* Properties of the expansion and of name generation (NameSpec).          *)
(***************************************************************************)
\* The number of combinations that have their final name.
NamedCount == Len(sanitizedNames)
\* The final name of combination c without its extension.
FinalName(c) == ReplaceSuffix(combos[c].name, Mp4, <<>>)

\* C5: no two combinations have final names that are equal when compared
\* case-insensitively.
C5_UniqueNames ==
  \A c \in 1..NamedCount : \A d \in 1..NamedCount :
    c # d => toLowerCase(combos[c].name) # toLowerCase(combos[d].name)

\* Two combinations share a sanitized name and a third one's sanitized name
\* is that name with the suffix _1.
C5_Witness ==
  /\ stage = "ready"
  /\ \E c \in 1..NamedCount : \E d \in 1..NamedCount : \E e \in 1..NamedCount :
       /\ c < d
       /\ sanitizedNames[c] = sanitizedNames[d]
       /\ sanitizedNames[e] = Suffixed(sanitizedNames[c], 1)

RECURSIVE PoolProduct(_)
PoolProduct(segs) ==
  IF segs = <<>> THEN 1 ELSE Len(Head(segs).videos) * PoolProduct(Tail(segs))
OverlayFactor == IF Len(overlays) > 0 THEN Len(overlays) ELSE 1
TrackFactor == IF Len(musicFiles) > 0 /\ musicAll THEN Len(musicFiles) ELSE 1

\* C7: the number of combinations is n1*...*nk, times m when m > 0, times t
\* only when t > 0 and multiply-by-all-tracks is set.
C7_Count ==
  /\ stage = "overlays" => Len(combos) = PoolProduct(segments)
  /\ stage = "music" => Len(combos) = PoolProduct(segments) * OverlayFactor
  /\ stage \in {"names", "ready"} =>
       Len(combos) = PoolProduct(segments) * OverlayFactor * TrackFactor

\* Two pools of two, two overlays and two tracks that are not multiplied.
C7_Witness ==
  /\ stage = "ready"
  /\ Len(segments) = 2
  /\ \A s \in DOMAIN segments : Len(segments[s].videos) = 2
  /\ Len(overlays) = 2
  /\ Len(musicFiles) = 2
  /\ ~musicAll
  /\ Len(combos) = 8

\* The item of segment s in the base combination of rank b (from 0), the
\* last segment varying fastest.
RECURSIVE Stride(_, _)
Stride(segs, s) ==
  IF s >= Len(segs) THEN 1 ELSE Len(segs[s + 1].videos) * Stride(segs, s + 1)
ItemAt(segs, b, s) ==
  segs[s].videos[((b \div Stride(segs, s)) % Len(segs[s].videos)) + 1]

ExampleNames ==
  << <<"a","_","x">> \o Mp4, <<"a","_","y">> \o Mp4,
     <<"b","_","x">> \o Mp4, <<"b","_","y">> \o Mp4 >>

\* C8: the sequence is in nested-loop order: segments outermost (the first
\* varying slowest), then overlays, then multiplied tracks innermost; the
\* example hook:[a,b], cta:[x,y] is named a_x, a_y, b_x, b_y in that order.
C8_NestedLoopOrder ==
  /\ stage \in {"names", "ready"} =>
       \A c \in DOMAIN combos :
         LET q == c - 1
             track == q % TrackFactor
             overlay == (q \div TrackFactor) % OverlayFactor
             base == q \div (TrackFactor * OverlayFactor)
         IN  /\ \A s \in DOMAIN segments :
                  /\ combos[c].parts[s].video = ItemAt(segments, base, s)
                  /\ combos[c].parts[s].label = segments[s].label
             /\ Len(combos[c].parts) = Len(segments)
             /\ Len(overlays) > 0 => combos[c].overlayText = overlays[overlay + 1]
             /\ (Len(musicFiles) > 0 /\ musicAll) =>
                  combos[c].music = musicFiles[track + 1]
  /\ ( /\ stage = "ready"
       /\ segments = ExampleSegments
       /\ namingTemplate = defaultNaming(segments)
       /\ overlays = <<>>
       /\ ~(Len(musicFiles) > 0 /\ musicAll) ) =>
       [c \in DOMAIN combos |-> combos[c].name] = ExampleNames

\* The example batch has been named.
C8_Witness ==
  /\ stage = "ready"
  /\ segments = ExampleSegments
  /\ overlays = <<>>
  /\ musicFiles = <<>>
  /\ [c \in DOMAIN combos |-> combos[c].name] = ExampleNames

\* The name of combination c before sanitizing when no track name is appended.
NameWithoutTrack(c) ==
  LET n == applyNaming(namingTemplate, combos[c].parts, c - 1)
  IN  IF HasOverlayText(combos[c])
      THEN n \o <<"_">> \o OverlaySlug(combos[c].overlayText)
      ELSE n

EarlierKeys(c) == {toLowerCase(FinalName(d)) : d \in 1..(c - 1)}

\* C10: walking the combinations in sequence order, a combination keeps its
\* sanitized name when no earlier one was assigned it (case-insensitively),
\* otherwise it gets the sanitized name and _k for the smallest k >= 1 whose
\* result is not yet assigned.
C10_SmallestFreeSuffix ==
  \A c \in 1..NamedCount :
    LET s == sanitizedNames[c]
    IN  IF toLowerCase(s) \notin EarlierKeys(c)
        THEN FinalName(c) = s
        ELSE \E k \in 1..c :
               /\ FinalName(c) = Suffixed(s, k)
               /\ toLowerCase(Suffixed(s, k)) \notin EarlierKeys(c)
               /\ \A j \in 1..(k - 1) : toLowerCase(Suffixed(s, j)) \in EarlierKeys(c)

\* A combination whose suffix _1 was taken received _2.
C10_Witness ==
  /\ stage = "ready"
  /\ \E c \in 1..NamedCount :
       /\ FinalName(c) = Suffixed(sanitizedNames[c], 2)
       /\ \E d \in 1..(c - 1) : sanitizedNames[d] = Suffixed(sanitizedNames[c], 1)

(***************************************************************************)
(* Properties of the render requests (specification GraphSpec).            *)
(***************************************************************************)
Requested == request # NoRequest
RequestCombo == combos[request.job + 1]
RequestParts == 1..Len(RequestCombo.parts)
RequestFilters == Range(request.cmd.filter_complex)
FiltersFrom(op, ref) == {f \in RequestFilters : f.op = op /\ f.ins = <<ref>>}
ConcatFilter == CHOOSE f \in RequestFilters : f.op = "concat"
RequestHasAudio == Len(request.cmd.map) = 2
PartTrim(k) == TrimFor(trimMap, RequestCombo.parts[k].label)

\* The duration ffprobe printed for part k when it is a positive number, in
\* units; 0 when the probe failed or printed anything else.
ProbedDuration(k) ==
  LET p == request.probes[k]
      text == SelectSeq(p.stdout, LAMBDA c : c # "\n")
  IN  IF p.error \/ text = <<>> \/ isNaN(parseFloat(text)) THEN 0
      ELSE Max(0, parseFloat(text).value)

\* C11: a part with a Last trim is trimmed, video and audio, from
\* duration - seconds exactly when the probed duration is a positive number
\* greater than seconds; otherwise its streams enter the concatenation
\* untrimmed; the request is built in every case and no trim starts before 0.
C11_LastTrim ==
  Requested =>
    \A k \in RequestParts :
      PartTrim(k).mode = "last" =>
        LET d == ProbedDuration(k)
            secs == PartTrim(k).seconds
            vs == Ref("vs", k - 1)
            as == Ref("as", k - 1)
            vtrims == FiltersFrom("trim,setpts", vs)
            atrims == FiltersFrom("atrim,asetpts", as)
            ins == Range(ConcatFilter.ins)
        IN  IF d > secs
            THEN /\ vtrims = {Filter(<<vs>>, "trim,setpts", [start |-> d - secs],
                                     <<Ref("vt", k - 1)>>)}
                 /\ d - secs >= 0
                 /\ Ref("vt", k - 1) \in ins /\ vs \notin ins
                 /\ RequestHasAudio =>
                      /\ atrims = {Filter(<<as>>, "atrim,asetpts", [start |-> d - secs],
                                          <<Ref("at", k - 1)>>)}
                      /\ Ref("at", k - 1) \in ins /\ as \notin ins
            ELSE /\ vtrims = {} /\ atrims = {}
                 /\ vs \in ins /\ Ref("vt", k - 1) \notin ins
                 /\ RequestHasAudio => as \in ins

\* A request with audio in which the first part is trimmed to its last two
\* seconds and the second part, whose probe failed, is used whole.
C11_Witness ==
  /\ Requested
  /\ RequestHasAudio
  /\ Len(RequestCombo.parts) >= 2
  /\ PartTrim(1).mode = "last" /\ PartTrim(2).mode = "last"
  /\ ProbedDuration(1) > PartTrim(1).seconds
  /\ request.probes[2].error
  /\ FiltersFrom("atrim,asetpts", Ref("as", 0)) # {}
  /\ FiltersFrom("trim,setpts", Ref("vs", 1)) = {}

(***************************************************************************)
(* Properties of the configuration steps (specification ConfigSpec).       *)
(***************************************************************************)
\* The run has built no job and has started none.
NoJob ==
  /\ combos = <<>>
  /\ workers = {}
  /\ request = NoRequest
  /\ \A i \in DOMAIN invoked : invoked[i] = <<>>

\* The trim a trim argument names is out of the bounds of the data model: a
\* Last of no positive number of seconds, a Range that starts before 0 or
\* lasts no positive time, or no trim at all.
OutOfBounds(trimStr) ==
  IF LastMatch(trimStr)
  THEN parseFloat(LastGroup(trimStr)).value <= 0
  ELSE IF RangeMatch(trimStr)
  THEN \/ parseFloat(RangeGroup1(trimStr)).value < 0
       \/ parseFloat(RangeGroup3(trimStr)).value
            - parseFloat(RangeGroup1(trimStr)).value <= 0
  ELSE isNaN(parseFloat(trimStr)) \/ parseFloat(trimStr).value <= 0

InBounds(trim) ==
  IF trim.mode = "last" THEN trim.seconds > 0
  ELSE trim.mode = "range" /\ trim.start >= 0 /\ trim.duration > 0

\* C12: every trim spec in the trim map is within the bounds of the data
\* model, and a run with a trim argument that is out of bounds never gets
\* past the parsing of the trims: it exits there with no job built or run.
C12_TrimBounds ==
  /\ \A label \in DOMAIN trimMap : InBounds(trimMap[label])
  /\ \A t \in TrimOptions(opts) :
       OutOfBounds(t[2]) =>
         /\ stage \in {"segments", "trims", "exit"}
         /\ t[1] \notin DOMAIN trimMap
         /\ NoJob
         /\ DOMAIN audioProbeCache = {}

\* The run exited while parsing --trim-cta 3-1, after it had accepted
\* --trim-hook last3.
C12_Witness ==
  /\ stage = "exit"
  /\ segments # <<>>
  /\ opts.trimCta = <<"3","-","1">>
  /\ DOMAIN trimMap = {SegmentLabels[1]}
  /\ trimMap[SegmentLabels[1]] = LastSpec(3 * Unit)

\* Directory dir is no source of segment items: it is missing, is no
\* directory or holds no video.
NoVideos(dir) ==
  ~Folder(dir).exists \/ ~Folder(dir).isDirectory \/ Folder(dir).videos = <<>>

\* A --segments argument that names no label, no directory or an empty pool.
BadSegmentArg(seg) ==
  \/ ":" \notin Range(seg)
  \/ Trim(SubSeq(seg, 1, IndexOf(seg, ":") - 1)) = <<>>
  \/ Trim(SubSeq(seg, IndexOf(seg, ":") + 1, Len(seg))) = <<>>
  \/ NoVideos(Trim(SubSeq(seg, IndexOf(seg, ":") + 1, Len(seg))))

\* The options name no segments or an empty segment pool.
SegmentError(o) ==
  IF o.segments # <<>>
  THEN \E k \in DOMAIN o.segments : BadSegmentArg(o.segments[k])
  ELSE \/ o.hooks = <<>> \/ o.ctas = <<>>
       \/ NoVideos(o.hooks) \/ NoVideos(o.ctas)
       \/ (o.bodies # <<>> /\ NoVideos(o.bodies))

TrimError(o) == \E t \in TrimOptions(o) : OutOfBounds(t[2])

\* The size argument is no positive even number.
SizeError(size) ==
  LET n == parseInt(size)
  IN  isNaN(n) \/ n.value < 1 \/ (n.value \div 2) * 2 # n.value

\* --segments given together with --hooks, --bodies or --ctas.
Conflicting(o) ==
  o.segments # <<>> /\ (o.hooks # <<>> \/ o.ctas # <<>> \/ o.bodies # <<>>)

\* The run has ended, or has not got past the validation of the options: no
\* audio probe was made, no job was built or scheduled and no render invoked.
StoppedEarly ==
  /\ stage \in {"segments", "trims", "size", "exit"}
  /\ stage = "exit" => exitCode = <<1>>
  /\ DOMAIN audioProbeCache = {}
  /\ NoJob

\* C16 as stated: a run with a configuration error, conflicting options
\* included, never gets past the validation of its options. The code only
\* warns about --segments given with --hooks/--bodies/--ctas and goes on.
C16_ConflictingOptionsFatal ==
  (\/ SegmentError(opts) \/ TrimError(opts)
   \/ SizeError(opts.width) \/ SizeError(opts.height)
   \/ Conflicting(opts)) => StoppedEarly

\* C16: a run whose options name no segments or an empty segment pool, an
\* invalid trim, or a width or height that is no positive even number never
\* gets past the validation of its options: it exits with code 1 before any
\* audio probe, with no job built or scheduled and no render invoked.
C16_ConfigErrorsFatal ==
  (\/ SegmentError(opts) \/ TrimError(opts)
   \/ SizeError(opts.width) \/ SizeError(opts.height)) => StoppedEarly

\* The run exited at the size validation, its segments and trims accepted,
\* because of the odd width 1081.
C16_Witness ==
  /\ stage = "exit"
  /\ exitCode = <<1>>
  /\ segments # <<>>
  /\ ~SegmentError(opts) /\ ~TrimError(opts)
  /\ opts.width = <<"1","0","8","1">>
  /\ ~SizeError(opts.height)
  /\ StoppedEarly

AudioOps == {"aresample,aformat", "atrim,asetpts", "aresample,aformat,volume", "amix"}
VideoOutputs == {Ref("concatv", 0), Ref("overlayv", 0)}
AudioOutputs == {Ref("concata", 0), Ref("mixeda", 0)}
\* The stream references the filters of the request read and write.
RequestRefs ==
  UNION { Range(f.ins) \cup Range(f.outs) : f \in RequestFilters }
AudioKinds == {"a", "as", "at", "concata", "bgm", "mixeda"}

\* The cache says that no part of the combination has audio.
AllSilent ==
  \A k \in RequestParts : ~audioProbeCache[RequestCombo.parts[k].video.path]

\* C13: the request is video-only (no audio filter, no audio stream, no
\* silence input, one -map of a video stream, no audio encoder option) exactly
\* when the cache says no part has audio and the combination has no music;
\* every other request maps one video and one audio stream.
C13_VideoOnly ==
  Requested =>
    IF AllSilent /\ "music" \notin DOMAIN RequestCombo
    THEN /\ \A f \in RequestFilters : f.op \notin AudioOps
         /\ \A r \in RequestRefs : r.kind \notin AudioKinds
         /\ ConcatFilter.args.a = 0
         /\ \A i \in DOMAIN request.cmd.inputs : request.cmd.inputs[i].kind = "file"
         /\ Len(request.cmd.inputs) = Len(RequestCombo.parts)
         /\ Len(request.cmd.map) = 1
         /\ request.cmd.map[1] \in VideoOutputs
         /\ {"ca", "ba"} \cap DOMAIN request.cmd = {}
    ELSE /\ Len(request.cmd.map) = 2
         /\ request.cmd.map[1] \in VideoOutputs
         /\ request.cmd.map[2] \in AudioOutputs
         /\ ConcatFilter.args.a = 1
         /\ {"ca", "ba"} \subseteq DOMAIN request.cmd

\* A video-only request of two silent parts with an overlay, in a run with a
\* trim.
C13_Witness ==
  /\ Requested
  /\ Len(RequestCombo.parts) = 2
  /\ AllSilent
  /\ "music" \notin DOMAIN RequestCombo
  /\ request.cmd.map = <<Ref("overlayv", 0)>>
  /\ DOMAIN trimMap # {}

\* The position of filter f in the request.
FilterIndex(f) == CHOOSE k \in DOMAIN request.cmd.filter_complex :
                    request.cmd.filter_complex[k] = f
MixFilters == {f \in RequestFilters : f.op = "amix"}
BgmFilters == {f \in RequestFilters : Ref("bgm", 0) \in Range(f.outs)}

\* The filter that produces stream ref.
Producer(ref) == CHOOSE f \in RequestFilters : ref \in Range(f.outs)

\* The audio inputs of the concatenation: every second pad, [v][a][v][a]...
AudioPads(f) == {f.ins[k] : k \in {j \in DOMAIN f.ins : j % 2 = 0}}

\* Stream ref of the request ends: a stream of a file ends, the generated
\* silence of anullsrc does not; atrim with a duration ends its stream, amix
\* with duration=first ends with its first input, and every other filter ends
\* when all the streams it reads have ended.
RECURSIVE BoundedAudio(_)
BoundedAudio(ref) ==
  IF ref.kind = "a"
  THEN request.cmd.inputs[ref.idx + 1].kind = "file"
  ELSE LET f == Producer(ref)
       IN  CASE f.op = "atrim,asetpts" ->
                  "duration" \in DOMAIN f.args \/ BoundedAudio(f.ins[1])
             [] f.op = "amix" ->
                  IF f.args.duration = "first" THEN BoundedAudio(f.ins[1])
                  ELSE \A r \in Range(f.ins) : BoundedAudio(r)
             [] f.op = "concat" -> \A r \in AudioPads(f) : BoundedAudio(r)
             [] OTHER -> \A r \in Range(f.ins) : BoundedAudio(r)

\* The shape of the mix: in every request of a combination with music,
\* whatever parts are silent, the music input is attenuated into [bgm], one
\* amix of two inputs takes the concatenated audio first and [bgm] second with
\* duration=first, and its output is the audio stream mapped to the output
\* file; a request without music has no mix.
MixShape ==
  Requested =>
    IF "music" \in DOMAIN RequestCombo
    THEN LET n == Len(RequestCombo.parts)
         IN  /\ request.cmd.inputs[n + 1] = FileInput(RequestCombo.music.path)
             /\ BgmFilters = {Filter(<<Ref("a", n)>>, "aresample,aformat,volume",
                                     [rate |-> 44100, sample_fmts |-> "fltp",
                                      channel_layouts |-> "stereo", volume |-> "0.3"],
                                     <<Ref("bgm", 0)>>)}
             /\ Cardinality(MixFilters) = 1
             /\ \A f \in MixFilters :
                  /\ f.ins = <<Ref("concata", 0), Ref("bgm", 0)>>
                  /\ f.args.inputs = 2
                  /\ f.args.duration = "first"
                  /\ f.outs = <<Ref("mixeda", 0)>>
                  /\ FilterIndex(ConcatFilter) < FilterIndex(f)
             /\ Ref("concata", 0) \in Range(ConcatFilter.outs)
             /\ request.cmd.map[2] = Ref("mixeda", 0)
    ELSE MixFilters = {} /\ BgmFilters = {}


\* C19: every request of a combination with music, silent parts included, has
\* the shape above, and the audio it maps to the output ends with the
\* concatenated video: the first input of the mix, the concatenated audio, is
\* a stream that ends.
C19_MusicMix ==
  /\ MixShape
  /\ (Requested /\ "music" \in DOMAIN RequestCombo) =>
       BoundedAudio(request.cmd.map[2])

\* A request with music for a combination of two silent parts.
SilentMix ==
  /\ Requested
  /\ "music" \in DOMAIN RequestCombo
  /\ Len(RequestCombo.parts) = 2
  /\ AllSilent
  /\ Cardinality({i \in DOMAIN request.cmd.inputs :
                    request.cmd.inputs[i].kind = "lavfi"}) = 2
  /\ request.cmd.map[2] = Ref("mixeda", 0)

\* The input pad a stream of the request comes from, through the filters of
\* its chain.
RECURSIVE Origin(_)
Origin(ref) ==
  IF ref.kind \in {"v", "a"} THEN ref ELSE Origin(Producer(ref).ins[1])

\* The input of the request that pad ref belongs to.
InputOf(ref) == request.cmd.inputs[ref.idx + 1]

\* The cache says that part k of the combination has audio.
CachedAudio(k) ==
  LET p == RequestCombo.parts[k].video.path
  IN  p \in DOMAIN audioProbeCache /\ audioProbeCache[p]

\* C24: in every request that is not video-only, the concatenation is asked
\* for n segments of one video and one audio stream and reads 2n streams, for
\* part k in order the video of input k and then an audio stream: the audio
\* of input k when the cache says the part has audio, otherwise the audio of
\* a generated silence input that no other part reads.
C24_UniformConcat ==
  (Requested /\ RequestHasAudio) =>
    LET n == Len(RequestCombo.parts)
        pads == ConcatFilter.ins
    IN  /\ ConcatFilter.args = [n |-> n, v |-> 1, a |-> 1]
        /\ Len(pads) = 2 * n
        /\ \A k \in 1..n :
             /\ Origin(pads[2 * k - 1]) = Ref("v", k - 1)
             /\ InputOf(Origin(pads[2 * k - 1])) = FileInput(RequestCombo.parts[k].video.path)
             /\ Origin(pads[2 * k]).kind = "a"
             /\ IF CachedAudio(k)
                THEN Origin(pads[2 * k]) = Ref("a", k - 1)
                ELSE /\ InputOf(Origin(pads[2 * k])).kind = "lavfi"
                     /\ InputOf(Origin(pads[2 * k])).source = "anullsrc"
                     /\ \A j \in 1..n : j # k => Origin(pads[2 * j]) # Origin(pads[2 * k])

\* A request with music for two silent parts, the first of them trimmed: each
\* part reads its own silence input, after the music input.
C24_Witness ==
  /\ Requested /\ RequestHasAudio
  /\ Len(RequestCombo.parts) = 2
  /\ AllSilent
  /\ "music" \in DOMAIN RequestCombo
  /\ Origin(ConcatFilter.ins[2]) = Ref("a", 3)
  /\ Origin(ConcatFilter.ins[4]) = Ref("a", 4)
  /\ ConcatFilter.ins[2].kind = "at"

\* The number of places where stream ref is read: a pad of an operation or a
\* -map of the request.
Uses(ref) ==
  LET fc == request.cmd.filter_complex
  IN  Cardinality({p \in (DOMAIN fc) \X (1..(2 * MaxParts + 2)) :
                     p[2] \in DOMAIN fc[p[1]].ins /\ fc[p[1]].ins[p[2]] = ref})
        + Cardinality({j \in DOMAIN request.cmd.map : request.cmd.map[j] = ref})

\* The number of operations' outputs that are labelled ref.
Productions(ref) ==
  LET fc == request.cmd.filter_complex
  IN  Cardinality({p \in (DOMAIN fc) \X (1..2) :
                     p[2] \in DOMAIN fc[p[1]].outs /\ fc[p[1]].outs[p[2]] = ref})

\* Every stream named in the request.
NamedStreams ==
  UNION {Range(f.ins) \cup Range(f.outs) : f \in RequestFilters}
    \cup Range(request.cmd.map)

\* A stream of an input, [k:v] or [k:a], as opposed to a label.
IsInputPad(ref) == ref.kind \in {"v", "a"}

\* The stream that the audio of part k is resampled from.
AudioSource(k) == Producer(Ref("as", k - 1)).ins[1]

\* The input indices of the music and of the silence of the silent parts.
MusicIndices == {f.ins[1].idx : f \in BgmFilters}
SilentParts == {k \in RequestParts : ~CachedAudio(k)}
SilenceIndices == {AudioSource(k).idx : k \in SilentParts}

\* C28: in every request, each label is the output of exactly one operation
\* and is read exactly once, every input stream named is a stream of an
\* input that was passed, the music and the silence inputs have indices of
\* their own after those of the parts, and the audio of a part's input is read
\* only when the cache says the part has audio.
C28_WellFormedGraph ==
  Requested =>
    LET n == Len(RequestCombo.parts)
    IN  /\ \A r \in NamedStreams :
             IF IsInputPad(r)
             THEN /\ Productions(r) = 0
                  /\ r.idx \in 0..(Len(request.cmd.inputs) - 1)
                  /\ (r.kind = "a" /\ r.idx < n) => CachedAudio(r.idx + 1)
             ELSE Productions(r) = 1 /\ Uses(r) = 1
        /\ RequestHasAudio =>
             /\ Cardinality(SilenceIndices) = Cardinality(SilentParts)
             /\ MusicIndices \cap SilenceIndices = {}
             /\ \A i \in MusicIndices \cup SilenceIndices :
                  i \in n..(Len(request.cmd.inputs) - 1)
             /\ \A i \in MusicIndices :
                  request.cmd.inputs[i + 1] = FileInput(RequestCombo.music.path)
             /\ \A i \in SilenceIndices : request.cmd.inputs[i + 1].kind = "lavfi"
             /\ Len(request.cmd.inputs) =
                  n + Cardinality(MusicIndices) + Cardinality(SilenceIndices)

\* A request with music and an overlay for a silent first part, trimmed, and
\* a second part with audio: five labels of audio, one silence input after
\* the music input.
C28_Witness ==
  /\ Requested /\ RequestHasAudio
  /\ Len(RequestCombo.parts) = 2
  /\ ~CachedAudio(1) /\ CachedAudio(2)
  /\ MusicIndices = {2}
  /\ SilenceIndices = {3}
  /\ request.cmd.map = <<Ref("overlayv", 0), Ref("mixeda", 0)>>
  /\ ConcatFilter.ins[2] = Ref("at", 0)

\* C29: in every request with audio, each audio stream the concatenation
\* reads is a stream that ends: the silence generated for a part without
\* audio is cut to a duration, whether the part has no trim, a Range trim or
\* a Last trim.
C29_BoundedSilence ==
  (Requested /\ RequestHasAudio) =>
    \A r \in AudioPads(ConcatFilter) : BoundedAudio(r)

\* The text with each backslash, single quote and colon escaped once.
EscapedOnce(text) ==
  Flatten([k \in DOMAIN text |->
             CASE text[k] = "\\" -> <<"\\", "\\">>
               [] text[k] = "'" -> <<"'", "\\", "'", "'">>
               [] text[k] = ":" -> <<"\\", ":">>
               [] OTHER -> <<text[k]>>])

DrawtextFilters == {f \in RequestFilters : f.op = "drawtext"}

\* C25: every request of a combination with overlay text, video-only or
\* with audio, draws the text with each backslash, single quote and colon of
\* the literal text escaped once (backslashes first, so that no backslash an
\* escape introduced is escaped again); a request without overlay text draws
\* no text.
C25_OverlayEscape ==
  Requested =>
    IF HasOverlayText(RequestCombo)
    THEN /\ Cardinality(DrawtextFilters) = 1
         /\ \A f \in DrawtextFilters : f.args.text = EscapedOnce(RequestCombo.overlayText)
    ELSE DrawtextFilters = {}

(***************************************************************************)
(* Properties of the post-processing and of the report (specification      *)
(* Spec).                                                                  *)
(***************************************************************************)
PostTools == {"whisper", "burn", "thumb"}
InvokedTools(i) == Range(invoked[i + 1])

\* C14: every job invokes its render first; whisper, the subtitle burn and
\* the thumbnail extraction of a job are invoked only once its render has
\* returned successfully, and a job whose render failed invokes nothing else.
C14_PostProcessAfterRender ==
  \A i \in Jobs :
    /\ invoked[i + 1] # <<>> => invoked[i + 1][1] = "render"
    /\ InvokedTools(i) \cap PostTools # {} => exitStatus[i + 1] = "ok"
    /\ exitStatus[i + 1] = "fail" => invoked[i + 1] = <<"render">>
    /\ \A w \in workers :
         w.i = i /\ w.pc \in {"burn", "thumb"} => exitStatus[i + 1] = "ok"

\* With captions and thumbnails requested, one job ran all its steps and
\* another, whose render left a partial file, is terminal after its render.
C14_Witness ==
  /\ captions /\ thumbnails
  /\ \E i \in Jobs : invoked[i + 1] = <<"render", "whisper", "burn", "thumb">>
  /\ \E i \in Jobs :
       /\ IsTerminal(i)
       /\ exitStatus[i + 1] = "fail"
       /\ FileExists(fs, OutPath(JobName(i)))
       /\ invoked[i + 1] = <<"render">>

\* C15: whatever happens in the caption and thumbnail steps, a job whose
\* render succeeded is a success, its output file stays at its output path
\* with the content that job rendered (or its captioned version), and the
\* counts of the report are those of the render results.
C15_PostProcessSoft ==
  /\ \A i \in Jobs :
       IsTerminal(i) /\ exitStatus[i + 1] = "ok" =>
         /\ results[i + 1].ok
         /\ FileExists(fs, OutPath(JobName(i)))
         /\ fs[OutPath(JobName(i))] \in {Content(i, "render"), Content(i, "captioned")}
  /\ stage = "report" =>
       /\ success = Cardinality({i \in Jobs : exitStatus[i + 1] = "ok"})
       /\ failed = Cardinality({i \in Jobs : exitStatus[i + 1] = "fail"})

\* C17: in the report, success + failed is the number of jobs, the error list
\* has one entry for each failed job and no other, each under that job's
\* name and with a message of at most 200 characters, and a batch with
\* failed jobs reports like any other.
C17_Report ==
  stage = "report" =>
    /\ success + failed = JobCount
    /\ Len(errors) = failed
    /\ \A i \in Jobs :
         Cardinality({k \in DOMAIN errors : errors[k].name = JobName(i)})
           = IF results[i + 1].ok THEN 0 ELSE 1
    /\ \A k \in DOMAIN errors :
         /\ Len(errors[k].error) <= MaxErrorLen
         /\ \E i \in Jobs :
              /\ errors[k].name = JobName(i)
              /\ ~results[i + 1].ok
              /\ SubSeq(results[i + 1].error.message, 1, Len(IntToString(i)) + 6)
                   = <<"E","r","r","o","r"," ">> \o IntToString(i)
              /\ \/ i % 2 = 1
                 \/ SubSeq(errors[k].error, 1, Len(IntToString(i))) = IntToString(i)

\* A batch reported two failures in the reverse of the submission order, the
\* first reported with a message cut to 200 characters, and a success.
C17_Witness ==
  /\ stage = "report"
  /\ success >= 1
  /\ Len(errors) = 2
  /\ errors[1].name = JobName(2)
  /\ errors[2].name = JobName(0)
  /\ Len(errors[1].error) = MaxErrorLen
  /\ Len(results[3].error.message) > MaxErrorLen

\* C18: a job whose render failed is a failure, never a success, and once it
\* is terminal no file is at its output path.
C18_NoPartialOutput ==
  \A i \in Jobs :
    IsTerminal(i) /\ exitStatus[i + 1] = "fail" =>
      /\ ~results[i + 1].ok
      /\ ~FileExists(fs, OutPath(JobName(i)))

\* The caption step of job i has ended: the job is at its thumbnail or is
\* terminal after a render that succeeded.
PastCaptions(i) ==
  /\ stage \in {"pool", "report"}
  /\ captions
  /\ exitStatus[i + 1] = "ok"
  /\ IsTerminal(i) \/ \E w \in workers : w.i = i /\ w.pc = "thumb"

\* A file of the given kind that job i wrote is at path p.
Leftover(i, p, kind) == FileExists(fs, p) /\ fs[p] = Content(i, kind)

\* C22: once the caption step of a job has ended, whatever its outcome, the
\* subtitle file the job's whisper call wrote is not at <name>.srt and no
\* file the job's burn wrote is at <name>_captioned.mp4, and the job's output
\* is the captioned video only when the job ran the burn.
C22_CaptionCleanup ==
  \A i \in Jobs :
    PastCaptions(i) =>
      /\ ~Leftover(i, SrtPath(JobName(i)), "srt")
      /\ ~Leftover(i, CaptionedPath(JobName(i)), "captioned")
      /\ ~Leftover(i, CaptionedPath(JobName(i)), "partial")
      /\ Leftover(i, OutPath(JobName(i)), "captioned") =>
           "burn" \in Range(invoked[i + 1])

\* The jobs that have reached their terminal state.
Terminal == {i \in Jobs : IsTerminal(i)}

\* The progress callback was last called for the job that became terminal
\* last, with that job's index and result and the number of terminal jobs.
ProgressCurrent ==
  /\ completed = Cardinality(Terminal)
  /\ IF Terminal = {} THEN progress = NoProgress
     ELSE /\ progress.completed = Cardinality(Terminal)
          /\ progress.idx \in Terminal
          /\ progress.result = results[progress.idx + 1]

\* A step in which no job becomes terminal does not call the callback; a step
\* in which a job becomes terminal makes one job terminal and calls the
\* callback for it with the next count.
ProgressStep ==
  LET newly == {i \in Jobs : ~IsTerminal(i) /\ IsTerminal(i)'}
  IN  IF newly = {}
      THEN progress' = progress /\ success' = success /\ failed' = failed
      ELSE /\ \E i \in newly :
                /\ newly = {i}
                /\ progress' = [completed |-> progress.completed + 1, idx |-> i,
                                result |-> results'[i + 1]]
           /\ success' + failed' = success + failed + 1

\* C26: the progress callback is called once for each job, in the step in
\* which the job reaches its terminal state, with the job's index and result
\* and with the number of jobs terminal so far: 1, 2, ..., N in completion
\* order.
C26_Progress ==
  /\ []ProgressCurrent
  /\ [][ProgressStep]_vars

\* The first job of a batch of three was the second to complete.
C26_Witness ==
  /\ stage = "pool"
  /\ JobCount = 3
  /\ progress.completed = 2
  /\ progress.idx = 0
  /\ ~progress.result.ok

\* The number of times job i was started: the primary render is the first
\* invocation of a task, made when a worker takes the task.
Starts(i) == Cardinality({k \in DOMAIN invoked[i + 1] : invoked[i + 1][k] = "render"})

\* The workers that are running job i.
Runners(i) == {w \in workers : w.i = i /\ w.pc # "done"}

\* Every job below the shared index has been started once, by one worker,
\* and no other job has been started; when the batch returns every job has.
StartedOnce ==
  stage \in {"pool", "report"} =>
    /\ index <= JobCount
    /\ \A i \in Jobs :
         /\ Starts(i) = IF i < index THEN 1 ELSE 0
         /\ Cardinality(Runners(i)) = IF i < index /\ ~IsTerminal(i) THEN 1 ELSE 0
         /\ IsTerminal(i) => i < index
    /\ stage = "report" => index = JobCount

\* A step of the pool starts no job or the one job at the shared index.
StartsInOrder ==
  stage = "pool" =>
    \/ index' = index /\ \A i \in Jobs : Starts(i)' = Starts(i)
    \/ /\ index' = index + 1
       /\ \A i \in Jobs : Starts(i)' = IF i = index THEN 1 ELSE Starts(i)

\* C27: under every interleaving each job is taken from the shared index by
\* one worker and started exactly once, none is skipped, and the jobs are
\* started in submission order.
C27_StartedOnceInOrder ==
  /\ []StartedOnce
  /\ [][StartsInOrder]_vars

\* A batch of more jobs than workers has returned: a worker took the last
\* job after it had finished another one.
C27_Witness ==
  /\ stage = "report"
  /\ JobCount > MAX_CONCURRENCY
  /\ Cardinality(workers) = MAX_CONCURRENCY
  /\ \A i \in Jobs : Starts(i) = 1

\* The assignments of an end to every invocation the jobs make that agree
\* with the way the primary renders of the batch ended; an invocation that
\* the options rule out has no end, and the post-processing invocations of
\* all jobs end alike.
Assignments ==
  {[k \in DOMAIN combos |->
      [render |-> exitStatus[k], whisper |-> wo, burn |-> bo, thumb |-> to]] :
     wo \in IF captions THEN WhisperOutcomes ELSE {"none"},
     bo \in IF captions THEN BurnOutcomes ELSE {"none"},
     to \in IF thumbnails THEN ThumbOutcomes ELSE {"none"}}

\* The batch of the pool ended as the sequential loop ends under assignment a.
SameAsSequential(a) ==
  LET loop == SequentialLoop(0, a, LoopStart)
  IN  /\ \A i \in Jobs : results[i + 1].ok = loop.outcomes[i + 1]
      /\ success = loop.success
      /\ failed = loop.failed
      /\ Range(errors) = Range(loop.errors)
      /\ Len(errors) = Len(loop.errors)

\* C30: whatever the order in which the workers' invocations end, the batch
\* returns with the outcome per job, the totals and the set of error entries
\* that the sequential loop of v1.2.0 ends with when the invocations of each
\* job end the same way.
C30_SameAsSequential ==
  stage = "report" => \A a \in Assignments : SameAsSequential(a)

\* A batch has returned with a success and two failures, and the later of
\* the two failed jobs was reported first: the error list is not in
\* submission order.
C30_Witness ==
  /\ stage = "report"
  /\ success >= 1
  /\ Len(errors) = 2
  /\ \E i, j \in Jobs :
       /\ i < j
       /\ errors[1].name = JobName(j)
       /\ errors[2].name = JobName(i)
  /\ errors # SequentialLoop(0, CHOOSE a \in Assignments : TRUE, LoopStart).errors

(***************************************************************************)
(* Properties of the sanitizer (specification SanitizeSpec).               *)
(***************************************************************************)
\* The characters a sanitized name must not contain.
Forbidden == {NUL, "/", "\\", "<", ">", ":", "\"", "|", "?", "*"}

DoubleUnderscore(s) == \E i \in 1..(Len(s) - 1) : s[i] = "_" /\ s[i + 1] = "_"

\* The path names a file directly in the output directory.
DirectChild(path) ==
  /\ path.dir = "output"
  /\ path.file \notin { <<>>, <<".">>, <<".", ".">> }
  /\ Range(path.file) \cap {NUL, "/", "\\"} = {}

\* C20: every sanitized name is not empty, has at most 200 characters, none of
\* them a null byte, a path separator or one of < > : " | ? *, and has no two
\* underscores in a row; the output path of every named job is a direct child
\* of the output directory.
C20_Sanitized ==
  \A k \in DOMAIN sanitizedNames :
    /\ sanitizedNames[k] # <<>>
    /\ Len(sanitizedNames[k]) <= 200
    /\ Range(sanitizedNames[k]) \cap Forbidden = {}
    /\ ~DoubleUnderscore(sanitizedNames[k])
    /\ DirectChild(OutPath(JobName(k - 1)))

\* A template of more than 200 characters with a null byte and a path
\* separator was cut to a name of 200 characters, and a second job was named
\* after it.
C20_Witness ==
  /\ Len(namingTemplate) > 200
  /\ {NUL, "/"} \subseteq Range(namingTemplate)
  /\ Len(sanitizedNames) = 2
  /\ Len(sanitizedNames[1]) = 200
  /\ JobName(1) # JobName(0)

(***************************************************************************)
(* Properties of template rendering (specification TemplateSpec).          *)
(***************************************************************************)
\* The placeholders of a template for the parts of combination i (0-based),
\* in the order of their substitution, each with the text that stands for it.
Placeholders(parts, i) ==
  << <<Braced(IndexWord), PadStart0(IntToString(i + 1), 4)>>,
     <<Braced(DateWord), Today>> >>
    \o [k \in DOMAIN parts |-> <<Braced(parts[k].label), parts[k].video.name>>]
    \o [k \in DOMAIN parts |-> <<Braced(IntToString(k - 1)), parts[k].video.name>>]

\* The first placeholder of ps that the text starts with, 0 when none does.
StartsWith(text, ps) ==
  LET at(k) == Len(ps[k][1]) <= Len(text) /\ SubSeq(text, 1, Len(ps[k][1])) = ps[k][1]
  IN  IF \E k \in DOMAIN ps : at(k)
      THEN CHOOSE k \in DOMAIN ps : at(k) /\ \A j \in 1..(k - 1) : ~at(j)
      ELSE 0

\* The template with every placeholder replaced by its text, the inserted
\* text standing verbatim.
RECURSIVE Rendered(_, _)
Rendered(template, ps) ==
  IF template = <<>> THEN <<>>
  ELSE LET k == StartsWith(template, ps)
       IN  IF k = 0 THEN <<Head(template)>> \o Rendered(Tail(template), ps)
           ELSE ps[k][2]
                  \o Rendered(SubSeq(template, Len(ps[k][1]) + 1, Len(template)), ps)

\* C21: the name of every combination is its template with {index} (1-based,
\* padded to 4 digits), {date}, every {label} and every {i} replaced, and the
\* text an item name inserts appears verbatim in it, placeholder text included.
C21_Rendering ==
  \A c \in DOMAIN sanitizedNames :
    sanitizedNames[c] =
      sanitizeFilename(Rendered(namingTemplate,
                                Placeholders(combos[c].parts, c - 1)))

(***************************************************************************)
(* Properties of the audio probe cache (specification RunSpec).            *)
(***************************************************************************)
\* The number of probes of path p.
ProbeCount(p) == Cardinality({k \in DOMAIN probeLog : probeLog[k].path = p})

\* The probe of path p found an audio stream: ffprobe returned and printed
\* something other than white space.
FoundAudio(p) ==
  \E k \in DOMAIN probeLog :
    /\ probeLog[k].path = p
    /\ ~probeLog[k].answer.error
    /\ Range(probeLog[k].answer.stdout) \ SpaceChars # {}

\* The paths of the items of the segments.
ItemPaths == AllPaths(segments)

\* Once the probing is over the cache has an entry for every item path, each
\* path was probed once, and the entry is TRUE exactly when the probe found
\* an audio stream.
CacheBuilt ==
  stage \notin {"probe"} =>
    /\ DOMAIN audioProbeCache = ItemPaths
    /\ \A p \in ItemPaths : ProbeCount(p) = 1
    /\ Len(probeLog) = Cardinality(ItemPaths)
    /\ \A p \in ItemPaths : audioProbeCache[p] = FoundAudio(p)

\* C23: in a rendering run the cache holds an entry for every distinct item
\* path before the first job starts, each path is probed exactly once, a
\* failed probe is stored as no audio, and no step after the probing (no
\* naming step, no job, no callback) changes the cache or probes again.
C23_ProbeCache ==
  /\ [](index > 0 \/ workers # {} => stage \notin {"probe"})
  /\ []CacheBuilt
  /\ [][stage # "probe" =>
          audioProbeCache' = audioProbeCache /\ probeLog' = probeLog]_vars

\* The batch has ended with both jobs run; the path of two segments has one
\* probe, which failed and is stored as no audio, and the other path has audio.
C23_Witness ==
  /\ stage = "report"
  /\ segments = SharedFolder
  /\ completed = 2
  /\ ProbeCount(TaskFile(1).path) = 1
  /\ probeLog[1].answer.error
  /\ ~audioProbeCache[TaskFile(1).path]
  /\ audioProbeCache[TaskFile(2).path]

=============================================================================
